---------------------------- MODULE Spec2Model ----------------------------
(***************************************************************************)
(* Model of the sleep-deviation engine (SleepAnalyzer) and of the code     *)
(* around it.                                                              *)
(*                                                                         *)
(* Numbers.  The program computes with IEEE doubles.  The model computes   *)
(* with decimal floating-point numbers of eight significant digits:        *)
(*     [k |-> "num", m |-> mantissa, e |-> exponent]   value m * 10^e      *)
(* normalised so that 10^7 <= |m| < 10^8 (or m = 0, e = 0), plus the       *)
(* special values NaN and +/-Infinity, with the IEEE rules for 0/0, x/0    *)
(* and for comparisons with NaN.  Every operation truncates to eight       *)
(* digits.  Sums of integers (the way the program's sums of integer-valued *)
(* measurements are exact in doubles) are computed as exact integers and   *)
(* converted once.                                                         *)
(***************************************************************************)
EXTENDS Integers, Sequences, FiniteSets, TLC

-----------------------------------------------------------------------------
(* Decimal floating point                                                  *)

Abs(i) == IF i < 0 THEN -i ELSE i
Sign(i) == IF i < 0 THEN -1 ELSE IF i > 0 THEN 1 ELSE 0
Min(a, b) == IF a <= b THEN a ELSE b
Max(a, b) == IF a >= b THEN a ELSE b

NaN == [k |-> "nan", m |-> 0, e |-> 0]
PosInf == [k |-> "inf", m |-> 1, e |-> 0]
NegInf == [k |-> "inf", m |-> -1, e |-> 0]
Zero == [k |-> "num", m |-> 0, e |-> 0]

IsNaN(x) == x.k = "nan"
IsInf(x) == x.k = "inf"
IsNum(x) == x.k = "num"

\* Number of decimal digits of a natural number below 2^31.
Digits(a) ==
  CHOOSE d \in 1..10 : (d = 1 \/ 10^(d - 1) <= a) /\ (d = 10 \/ a < 10^d)

Pow10(n) == 10^n

\* The number m * 10^e, normalised to eight digits (truncating).
Norm(m, e) ==
  LET scaled(d) ==
        IF d > 8
        THEN [k |-> "num", m |-> Sign(m) * (Abs(m) \div Pow10(d - 8)), e |-> e + (d - 8)]
        ELSE [k |-> "num", m |-> m * Pow10(8 - d), e |-> e - (8 - d)]
  IN IF m = 0 THEN Zero ELSE scaled(Digits(Abs(m)))

FromInt(i) == Norm(i, 0)
\* The decimal literal m * 10^e, e.g. Dec(5, -2) for 0.05.
Dec(m, e) == Norm(m, e)

FNeg(x) == IF IsNaN(x) THEN NaN ELSE [x EXCEPT !.m = -x.m]

\* Variant of Math.abs: the sign kept.
FAbsKeepSign(x) == x

FAbs(x) == IF IsNaN(x) THEN NaN ELSE [x EXCEPT !.m = Abs(x.m)]
FSign(x) == IF IsNaN(x) THEN 0 ELSE Sign(x.m)

\* x + y.  One guard digit is kept while the exponents are aligned.
FAdd(x, y) ==
  IF IsNaN(x) \/ IsNaN(y) THEN NaN
  ELSE IF IsInf(x) THEN (IF IsInf(y) /\ y.m # x.m THEN NaN ELSE x)
  ELSE IF IsInf(y) THEN y
  ELSE IF x.m = 0 THEN y
  ELSE IF y.m = 0 THEN x
  ELSE LET aligned(hi, lo) ==
             IF hi.e - lo.e > 9 THEN hi
             ELSE Norm(hi.m * 10 + Sign(lo.m) * ((Abs(lo.m) * 10) \div Pow10(hi.e - lo.e)),
                       hi.e - 1)
       IN IF x.e >= y.e THEN aligned(x, y) ELSE aligned(y, x)

FSub(x, y) == FAdd(x, FNeg(y))

\* x * y: the 16-digit product of the mantissas, cut to 8-9 digits by
\* multiplying 4-digit halves.
FMul(x, y) ==
  IF IsNaN(x) \/ IsNaN(y) THEN NaN
  ELSE IF IsInf(x) \/ IsInf(y)
       THEN (IF x.m = 0 \/ y.m = 0 THEN NaN
             ELSE IF Sign(x.m) = Sign(y.m) THEN PosInf ELSE NegInf)
  ELSE IF x.m = 0 \/ y.m = 0 THEN Zero
  ELSE LET a == Abs(x.m) \div 10000
           b == Abs(x.m) % 10000
           c == Abs(y.m) \div 10000
           d == Abs(y.m) % 10000
           p == 10 * a * c + ((a * d + b * c) * 10 + (b * d) \div 1000) \div 10000
       IN Norm(Sign(x.m) * Sign(y.m) * p, x.e + y.e + 7)

\* Long division of mantissas: n more quotient digits of (q + r/b).
RECURSIVE LongDiv(_, _, _, _)
LongDiv(q, r, b, n) ==
  IF n = 0 THEN q
  ELSE LongDiv(q * 10 + (r * 10) \div b, (r * 10) % b, b, n - 1)

\* x / y with the IEEE results for a zero divisor.
FDiv(x, y) ==
  IF IsNaN(x) \/ IsNaN(y) THEN NaN
  ELSE IF IsInf(x) THEN (IF IsInf(y) THEN NaN
                         ELSE IF x.m * (IF y.m < 0 THEN -1 ELSE 1) > 0 THEN PosInf ELSE NegInf)
  ELSE IF IsInf(y) THEN Zero
  ELSE IF y.m = 0 THEN (IF x.m = 0 THEN NaN ELSE IF x.m > 0 THEN PosInf ELSE NegInf)
  ELSE IF x.m = 0 THEN Zero
  ELSE LET a == Abs(x.m)
           b == Abs(y.m)
           q == LongDiv(a \div b, a % b, b, 8)
       IN Norm(Sign(x.m) * Sign(y.m) * q, x.e - y.e - 8)

\* Integer square root (floor), by Newton's iteration from above.
RECURSIVE ISqrtFrom(_, _)
ISqrtFrom(n, s) ==
  LET t == (s + n \div s) \div 2
  IN IF t >= s THEN s ELSE ISqrtFrom(n, t)

ISqrt(n) == IF n = 0 THEN 0 ELSE ISqrtFrom(n, Min(n, 46340))

\* Math.sqrt: NaN for a negative number; the integer root of the mantissa
\* refined by one Newton step in floating point.
FSqrt(x) ==
  IF IsNaN(x) THEN NaN
  ELSE IF IsInf(x) THEN (IF x.m > 0 THEN PosInf ELSE NaN)
  ELSE IF x.m < 0 THEN NaN
  ELSE IF x.m = 0 THEN Zero
  ELSE LET odd == (x.e % 2) # 0
           mm == IF odd THEN x.m * 10 ELSE x.m
           ee == IF odd THEN x.e - 1 ELSE x.e
           newton(s0) == FMul(Dec(5, -1), FAdd(s0, FDiv(FromInt(mm), s0)))
           shifted(s1) == [s1 EXCEPT !.e = s1.e + ee \div 2]
       IN shifted(newton(FromInt(ISqrt(mm))))

\* Comparisons: every comparison with NaN is false.
FLt(x, y) ==
  IF IsNaN(x) \/ IsNaN(y) THEN FALSE
  ELSE IF IsInf(x) THEN x.m < 0 /\ ~(IsInf(y) /\ y.m < 0)
  ELSE IF IsInf(y) THEN y.m > 0
  ELSE IF Sign(x.m) # Sign(y.m) THEN Sign(x.m) < Sign(y.m)
  ELSE IF x.m = 0 THEN FALSE
  ELSE IF x.e # y.e THEN (IF x.m > 0 THEN x.e < y.e ELSE x.e > y.e)
  ELSE x.m < y.m

FEq(x, y) == ~IsNaN(x) /\ ~IsNaN(y) /\ x = y
FLe(x, y) == FLt(x, y) \/ FEq(x, y)
FGt(x, y) == FLt(y, x)
FGe(x, y) == FLe(y, x)

\* Math.max and Math.min: NaN as soon as one argument is NaN.
\* Variant of Math.min(limit, value): the value passed through without the limit.
FMinNoClamp(x, y) == y

FMax(x, y) == IF IsNaN(x) \/ IsNaN(y) THEN NaN ELSE IF FLt(x, y) THEN y ELSE x
FMin(x, y) == IF IsNaN(x) \/ IsNaN(y) THEN NaN ELSE IF FLt(y, x) THEN y ELSE x

FSquare(x) == FMul(x, x)

\* x^n for a natural number n, by repeated squaring.
RECURSIVE FPowInt(_, _)
FPowInt(x, n) ==
  IF n = 0 THEN FromInt(1)
  ELSE IF n % 2 = 0 THEN FSquare(FPowInt(x, n \div 2))
  ELSE FMul(x, FSquare(FPowInt(x, n \div 2)))

\* Math.pow(x, h/2) for a natural number h and x >= 0.
FPowHalf(x, h) ==
  IF IsNaN(x) THEN NaN
  ELSE IF h % 2 = 0 THEN FPowInt(x, h \div 2)
  ELSE FMul(FPowInt(x, h \div 2), FSqrt(x))

-----------------------------------------------------------------------------
(* Helpers on sequences                                                    *)

\* arr.reduce((sum, val) => sum + val, 0) on integers, summed by halves.
RECURSIVE SumIntRange(_, _, _)
SumIntRange(arr, lo, hi) ==
  IF lo > hi THEN 0
  ELSE IF lo = hi THEN arr[lo]
  ELSE LET mid == (lo + hi) \div 2
       IN SumIntRange(arr, lo, mid) + SumIntRange(arr, mid + 1, hi)

SumInt(arr) == SumIntRange(arr, 1, Len(arr))

\* The same on floating-point numbers (summed by halves, which moves only
\* the rounding of the last digit).
RECURSIVE FSumRange(_, _, _)
FSumRange(arr, lo, hi) ==
  IF lo > hi THEN Zero
  ELSE IF lo = hi THEN arr[lo]
  ELSE LET mid == (lo + hi) \div 2
       IN FAdd(FSumRange(arr, lo, mid), FSumRange(arr, mid + 1, hi))

FSum(arr) == FSumRange(arr, 1, Len(arr))

\* Array.prototype.slice(-k): the last k elements (all of them when k = 0,
\* since -0 is 0, or when the array is shorter than k).
SliceLast(arr, k) ==
  IF k = 0 \/ k >= Len(arr) THEN arr ELSE SubSeq(arr, Len(arr) - k + 1, Len(arr))

\* Insert r into the date-sorted sequence s after every element whose date
\* is not later: the order Array.prototype.sort (a stable sort) gives.
RECURSIVE InsertByDate(_, _)
InsertByDate(s, r) ==
  IF s = << >> THEN << r >>
  ELSE IF s[Len(s)].date <= r.date THEN Append(s, r)
  ELSE Append(InsertByDate(SubSeq(s, 1, Len(s) - 1), r), s[Len(s)])

RECURSIVE SortByDate(_)
SortByDate(arr) ==
  IF arr = << >> THEN << >>
  ELSE InsertByDate(SortByDate(SubSeq(arr, 1, Len(arr) - 1)), arr[Len(arr)])

-----------------------------------------------------------------------------
(* SleepAnalyzer                                                           *)

\* Variants of the two window constants, each off by one.
MinDaysOffByOne == 14 - 1
MinDaysSingleNight == 14 - 13
MinDays == 14
BaselineDaysOffByOne == 30 + 1
BaselineDays == 30
RecentDays == 7

\* epsilon = 1e-6
Epsilon == Dec(1, -6)

\* arr.reduce((sum, val) => sum + val, 0) / arr.length; NaN for an empty array.
mean(arr) == FDiv(FromInt(SumInt(arr)), FromInt(Len(arr)))

\* sqrt(sum((val - avg)^2) / n) with avg = S/n kept exact: val - avg is
\* (n*val - S)/n, so the variance is sum((n*val - S)^2) / n^3.
std(arr) ==
  LET n == Len(arr)
      S == SumInt(arr)
      Q == SumInt([i \in 1..n |-> (n * arr[i] - S) * (n * arr[i] - S)])
  IN FSqrt(FDiv(FromInt(Q), FromInt(n * n * n)))

\* Root mean square of the successive differences; 0/0 = NaN when there are none.
rmssdOf(totalSleep) ==
  LET n == Len(totalSleep)
      successiveDiffs == [i \in 1..(IF n = 0 THEN 0 ELSE n - 1) |-> totalSleep[i + 1] - totalSleep[i]]
      sq == SumInt([i \in 1..Len(successiveDiffs) |-> successiveDiffs[i] * successiveDiffs[i]])
  IN FSqrt(FDiv(FromInt(sq), FromInt(Len(successiveDiffs))))

Column(recs, f) == [i \in 1..Len(recs) |-> recs[i][f]]

InsufficientData == [status |-> "error", message |-> "Insufficient data: minimum 14 days required"]

\* The measurements of a SleepRecord.
Measurements ==
  { "total_sleep_min", "sleep_efficiency", "deep_sleep_min", "rem_sleep_min", "awakenings" }

\* The mean and the deviation of every measurement are computed by the same
\* two calls; means[f] and stds[f] are those of measurement f.
computeBaselineStats(recs) ==
  IF Len(recs) < MinDays THEN InsufficientData
  ELSE LET baselineWindow == SliceLast(recs, Min(BaselineDays, Len(recs)))
           metrics(means, stds) ==
             [status |-> "ok",
              mean_total_sleep |-> means["total_sleep_min"],
              std_total_sleep |-> stds["total_sleep_min"],
              mean_efficiency |-> means["sleep_efficiency"],
              std_efficiency |-> stds["sleep_efficiency"],
              mean_deep |-> means["deep_sleep_min"], std_deep |-> stds["deep_sleep_min"],
              mean_rem |-> means["rem_sleep_min"], std_rem |-> stds["rem_sleep_min"],
              mean_awakenings |-> means["awakenings"], std_awakenings |-> stds["awakenings"],
              rmssd |-> rmssdOf(Column(baselineWindow, "total_sleep_min"))]
       IN metrics([f \in Measurements |-> mean(Column(baselineWindow, f))],
                  [f \in Measurements |-> std(Column(baselineWindow, f))])

\* Variant: the standard error without its epsilon floors.
semNoFloor(sd, mu, n) == FDiv(sd, FSqrt(FromInt(n)))

\* Variant: the baseline deviation divided by n, not by sqrt(n).
semOverN(sd, mu, n) ==
  FMax(FMax(FDiv(sd, FromInt(n)), FMul(Epsilon, FAdd(FAbs(mu), FromInt(1)))), Epsilon)

\* Variant: the baseline deviation of a single night, not divided by sqrt(n).
semOfOneNight(sd, mu, n) ==
  FMax(FMax(sd, FMul(Epsilon, FAdd(FAbs(mu), FromInt(1)))), Epsilon)

\* Math.max(std / Math.sqrt(n), epsilon * (Math.abs(mean) + 1), epsilon)
sem(sd, mu, n) ==
  FMax(FMax(FDiv(sd, FSqrt(FromInt(n))), FMul(Epsilon, FAdd(FAbs(mu), FromInt(1)))), Epsilon)

\* The four z-scores are computed by one formula; ZField, ZMean and ZStd
\* name the record field and the baseline fields each of them reads.
ZField ==
  [efficiency |-> "sleep_efficiency", deep_sleep |-> "deep_sleep_min",
   rem_sleep |-> "rem_sleep_min", awakenings |-> "awakenings"]
ZMean ==
  [efficiency |-> "mean_efficiency", deep_sleep |-> "mean_deep",
   rem_sleep |-> "mean_rem", awakenings |-> "mean_awakenings"]
ZStd ==
  [efficiency |-> "std_efficiency", deep_sleep |-> "std_deep",
   rem_sleep |-> "std_rem", awakenings |-> "std_awakenings"]

calculateZScores(recentRecords, baseline) ==
  LET n == Len(recentRecords)
      zScores(z) ==
        [efficiency |-> z["efficiency"], deep_sleep |-> z["deep_sleep"],
         rem_sleep |-> z["rem_sleep"], awakenings |-> z["awakenings"]]
  IN IF n = 0
     THEN [efficiency |-> Zero, deep_sleep |-> Zero, rem_sleep |-> Zero, awakenings |-> Zero]
     ELSE zScores([k \in DOMAIN ZField |->
                     FDiv(FSub(mean(Column(recentRecords, ZField[k])), baseline[ZMean[k]]),
                          sem(baseline[ZStd[k]], baseline[ZMean[k]], n))])

\* simple-statistics linearRegression on the points (i - 1, y[i]): the slope
\* m = (n*sumXY - sumX*sumY) / (n*sumXX - sumX*sumX); 0 for a single point.
linearRegressionSlope(y) ==
  LET n == Len(y)
      sumX == SumInt([i \in 1..n |-> i - 1])
      sumY == SumInt(y)
      sumXX == SumInt([i \in 1..n |-> (i - 1) * (i - 1)])
      sumXY == SumInt([i \in 1..n |-> (i - 1) * y[i]])
  IN IF n = 1 THEN Zero
     ELSE FDiv(FromInt(n * sumXY - sumX * sumY), FromInt(n * sumXX - sumX * sumX))

\* exp(-u) for u >= 0: the Taylor series of exp(-u/16), squared four times.
RECURSIVE ExpSeries(_, _, _)
ExpSeries(v, term, k) ==
  IF k > 12 THEN Zero
  ELSE FAdd(term, ExpSeries(v, FDiv(FMul(term, FNeg(v)), FromInt(k)), k + 1))

FExpNeg(u) ==
  IF IsNaN(u) THEN NaN
  ELSE IF FGt(u, FromInt(160)) THEN Zero
  ELSE FSquare(FSquare(FSquare(FSquare(ExpSeries(FDiv(u, FromInt(16)), FromInt(1), 1)))))

\* The local operators take the values the method names t, d and prob.
normalCDF(z) ==
  LET poly(t) ==
        FAdd(Dec(3193815, -7),
          FMul(t, FAdd(Dec(-3565638, -7),
            FMul(t, FAdd(Dec(1781478, -6),
              FMul(t, FAdd(Dec(-1821256, -6), FMul(t, Dec(1330274, -6)))))))))
      probOf(d, t) == FMul(FMul(d, t), poly(t))
      answer(prob) == IF FGt(z, Zero) THEN FSub(FromInt(1), prob) ELSE prob
  IN answer(probOf(FMul(Dec(3989423, -7), FExpNeg(FDiv(FMul(z, z), FromInt(2)))),
                   FDiv(FromInt(1), FAdd(FromInt(1), FMul(Dec(2316419, -7), FAbs(z))))))

tCDF(t, df) ==
  IF df > 30 THEN normalCDF(t)
  ELSE LET x == FDiv(FromInt(df), FAdd(FromInt(df), FMul(t, t)))
       IN FSub(FromInt(1), FMul(Dec(5, -1), FPowHalf(x, df)))

\* x is the day index 0..n-1, y the integer series, slope its fitted slope.
\* Each local operator computes one constant of the method from the ones it
\* is given: intercept, sse, ssx, se_slope, t and p.
calculateTrendPValue(y, slope) ==
  LET n == Len(y)
      x(i) == FromInt(i - 1)
      interceptOf(meanX, meanY) == FSub(meanY, FMul(slope, meanX))
      sseOf(intercept) ==
        FSum([i \in 1..n |->
                FSquare(FSub(FromInt(y[i]), FAdd(FMul(slope, x(i)), intercept)))])
      ssxOf(meanX) == FSum([i \in 1..n |-> FSquare(FSub(x(i), meanX))])
      seSlopeOf(mse, ssx) == FSqrt(FDiv(mse, ssx))
      tOf(se_slope) == FAbs(FDiv(slope, se_slope))
      pOf(tStat) == FMul(FromInt(2), FSub(FromInt(1), tCDF(tStat, n - 2)))
      fromMeans(meanX, meanY) ==
        pOf(tOf(seSlopeOf(FDiv(sseOf(interceptOf(meanX, meanY)), FromInt(n - 2)),
                          ssxOf(meanX))))
  IN IF n < 3 THEN FromInt(1)
     ELSE FMax(Zero, FMin(FromInt(1), fromMeans(mean([i \in 1..n |-> i - 1]), mean(y))))

\* EFFICIENCY_DECLINE_THRESHOLD = -0.02
EfficiencyDeclineThreshold == Dec(-2, -2)
\* effPValue < 0.05
SignificanceLevel == Dec(5, -2)

\* Variant: significance alone, whatever the slope.
hasSignificantTrendAnySlope(effPValue, effM) == FLt(effPValue, SignificanceLevel)

\* effPValue < 0.05 && effLine.m < EFFICIENCY_DECLINE_THRESHOLD
hasSignificantTrend(effPValue, effM) ==
  FLt(effPValue, SignificanceLevel) /\ FLt(effM, EfficiencyDeclineThreshold)

\* The four regressions are one call; line[f] is the slope fitted to
\* measurement f.
detectTrends(recs) ==
  LET trendWindow == SliceLast(recs, Min(BaselineDays, Len(recs)))
      trendsOf(line, effPValue) ==
        [efficiency_slope |-> line["sleep_efficiency"],
         deep_slope |-> line["deep_sleep_min"],
         rem_slope |-> line["rem_sleep_min"],
         awakenings_slope |-> line["awakenings"],
         efficiency_pvalue |-> effPValue,
         has_significant_trend |-> hasSignificantTrend(effPValue, line["sleep_efficiency"])]
      fromLines(line) ==
        trendsOf(line, calculateTrendPValue(Column(trendWindow, "sleep_efficiency"),
                                            line["sleep_efficiency"]))
  IN fromLines([f \in Measurements \ { "total_sleep_min" } |->
                  linearRegressionSlope(Column(trendWindow, f))])

\* The four coefficients of variation are one formula; cv[f] is the one of
\* measurement f.
computeSleepVariabilityIndex(recs) ==
  LET totalSleep == Column(recs, "total_sleep_min")
      svi_raw(cv, rmssd_normalized) ==
        FAdd(FAdd(FAdd(FAdd(FMul(Dec(25, -2), cv["sleep_efficiency"]),
                            FMul(Dec(25, -2), cv["deep_sleep_min"])),
                       FMul(Dec(2, -1), cv["rem_sleep_min"])),
                  FMul(Dec(15, -2), cv["awakenings"])),
             FMul(Dec(15, -2), rmssd_normalized))
  IN FMin(FromInt(100),
          FMul(svi_raw([f \in Measurements \ { "total_sleep_min" } |->
                          FDiv(std(Column(recs, f)), FAdd(mean(Column(recs, f)), Epsilon))],
                       FDiv(rmssdOf(totalSleep), FAdd(mean(totalSleep), Epsilon))),
               FromInt(200)))

\* types.ts determineSHDICategory
determineSHDICategory(score) ==
  IF FLt(score, FromInt(30)) THEN "stable"
  ELSE IF FLt(score, FromInt(60)) THEN "moderate_drift"
  ELSE "significant_drift"

\* Variant of the weight table: variability weighted 0.15, the sum 1.05.
WEIGHTSVariabilityHeavier ==
  [fragmentation |-> Dec(30, -2), deep_sleep |-> Dec(25, -2), rem_sleep |-> Dec(20, -2),
   efficiency |-> Dec(15, -2), variability |-> Dec(15, -2)]

\* SHDI weights
WEIGHTS ==
  [fragmentation |-> Dec(30, -2), deep_sleep |-> Dec(25, -2), rem_sleep |-> Dec(20, -2),
   efficiency |-> Dec(15, -2), variability |-> Dec(10, -2)]

\* Variant: the raw score passed through without the upper clamp.
normalizeSHDINoClamp(shdi_raw) == shdi_raw

\* Math.min(100, shdi_raw)
normalizeSHDI(shdi_raw) == FMin(FromInt(100), shdi_raw)

calculateSHDI(z_scores, trends, svi, nBaselineDays, nRecentDays) ==
  LET frag_component == FMul(FMax(Zero, z_scores.awakenings), FromInt(10))
      deep_component == FMul(FMax(Zero, FNeg(z_scores.deep_sleep)), FromInt(10))
      rem_component == FMul(FAbs(z_scores.rem_sleep), FromInt(10))
      eff_component == FMax(Zero, FMul(FNeg(trends.efficiency_slope), FromInt(50)))
      var_component == FDiv(svi, FromInt(10))
      shdi_raw ==
        FAdd(FAdd(FAdd(FAdd(FMul(WEIGHTS.fragmentation, frag_component),
                            FMul(WEIGHTS.deep_sleep, deep_component)),
                       FMul(WEIGHTS.rem_sleep, rem_component)),
                  FMul(WEIGHTS.efficiency, eff_component)),
             FMul(WEIGHTS.variability, var_component))
      scored(shdi_score, confidence) ==
        [score |-> shdi_score,
         category |-> determineSHDICategory(shdi_score),
         confidence |-> confidence]
      baselineFactor == FMin(FromInt(1), FDiv(FromInt(nBaselineDays), FromInt(30)))
      recentFactor == FMin(FromInt(1), FDiv(FromInt(nRecentDays), FromInt(7)))
      confidence ==
        FMin(FromInt(1),
             FAdd(FAdd(Dec(35, -2), FMul(Dec(35, -2), baselineFactor)),
                  FMul(Dec(3, -1), recentFactor)))
  IN scored(normalizeSHDI(shdi_raw), confidence)

\* Object.keys(scores): the four phenotypes in the order they are written.
PhenotypeKeys ==
  << "fragmentation_dominant", "deep_sleep_reduction", "rem_instability",
     "efficiency_instability" >>

\* Variant: the REM row carrying the evidence level 'emerging'.
phenotypeMappingEmerging ==
  [fragmentation_dominant |-> [domains |-> << "cardiovascular", "metabolic" >>, evidence |-> "strong"],
   deep_sleep_reduction |-> [domains |-> << "cardiometabolic", "cognitive" >>, evidence |-> "strong"],
   rem_instability |-> [domains |-> << "cognitive", "neurological" >>, evidence |-> "emerging"],
   efficiency_instability |-> [domains |-> << "metabolic", "mental_health" >>, evidence |-> "moderate"]]

phenotypeMapping ==
  [fragmentation_dominant |-> [domains |-> << "cardiovascular", "metabolic" >>, evidence |-> "strong"],
   deep_sleep_reduction |-> [domains |-> << "cardiometabolic", "cognitive" >>, evidence |-> "strong"],
   rem_instability |-> [domains |-> << "cognitive", "neurological" >>, evidence |-> "moderate"],
   efficiency_instability |-> [domains |-> << "metabolic", "mental_health" >>, evidence |-> "moderate"]]

phenotypeScores(z_scores, trends, svi) ==
  [fragmentation_dominant |-> FMax(Zero, z_scores.awakenings),
   deep_sleep_reduction |-> FMax(Zero, FNeg(z_scores.deep_sleep)),
   rem_instability |-> FAdd(FAbs(z_scores.rem_sleep), FDiv(svi, FromInt(50))),
   efficiency_instability |->
     FAdd(FMax(Zero, FMul(FNeg(trends.efficiency_slope), FromInt(30))), FDiv(svi, FromInt(50)))]

\* Variant: the reduce with its comparison reversed, keeping the lowest score.
RECURSIVE reducePrimaryLowest(_, _)
reducePrimaryLowest(scores, n) ==
  IF n = 1 THEN PhenotypeKeys[1]
  ELSE LET a == reducePrimaryLowest(scores, n - 1)
           b == PhenotypeKeys[n]
       IN IF FLt(scores[a], scores[b]) THEN a ELSE b

\* Variant: the reduce keeping the earlier key when the two scores are equal.
RECURSIVE reducePrimaryKeepFirst(_, _)
reducePrimaryKeepFirst(scores, n) ==
  IF n = 1 THEN PhenotypeKeys[1]
  ELSE LET a == reducePrimaryKeepFirst(scores, n - 1)
           b == PhenotypeKeys[n]
       IN IF FGe(scores[a], scores[b]) THEN a ELSE b

\* keys.reduce((a, b) => (scores[a] > scores[b] ? a : b)) over the first n keys.
RECURSIVE reducePrimary(_, _)
reducePrimary(scores, n) ==
  IF n = 1 THEN PhenotypeKeys[1]
  ELSE LET a == reducePrimary(scores, n - 1)
           b == PhenotypeKeys[n]
       IN IF FGt(scores[a], scores[b]) THEN a ELSE b

\* [...keys].sort((a, b) => scores[b] - scores[a]): a stable insertion sort;
\* key r moves in front of key e only when the comparator is positive
\* (scores[r] - scores[e] > 0).
RECURSIVE insertByScore(_, _, _)
insertByScore(scores, s, r) ==
  IF s = << >> THEN << r >>
  ELSE IF FGt(FSub(scores[r], scores[s[Len(s)]]), Zero)
       THEN Append(insertByScore(scores, SubSeq(s, 1, Len(s) - 1), r), s[Len(s)])
       ELSE Append(s, r)

RECURSIVE sortedByScore(_, _)
sortedByScore(scores, n) ==
  IF n = 0 THEN << >>
  ELSE insertByScore(scores, sortedByScore(scores, n - 1), PhenotypeKeys[n])

classifyPhenotype(z_scores, trends, svi) ==
  LET confidenceOf(separation) ==
        FMin(FromInt(1),
             FMax(Dec(2, -1),
                  FAdd(Dec(2, -1),
                       FMul(Dec(8, -1), FMin(FromInt(1), FDiv(separation, FromInt(2)))))))
      separationOf(scores, sorted) ==
        FMax(Zero, FSub(scores[sorted[1]],
                        IF Len(sorted) > 1 THEN scores[sorted[2]] ELSE Zero))
      phenotypeOf(primary_pattern, confidence) ==
        [primary_pattern |-> primary_pattern,
         confidence |-> confidence,
         associated_domains |-> phenotypeMapping[primary_pattern].domains,
         evidence_strength |-> phenotypeMapping[primary_pattern].evidence]
      fromScores(scores) ==
        phenotypeOf(reducePrimary(scores, Len(PhenotypeKeys)),
                    confidenceOf(separationOf(scores, sortedByScore(scores, Len(PhenotypeKeys)))))
  IN fromScores(phenotypeScores(z_scores, trends, svi))

\* The local operators follow the method's steps: each is given the
\* constants computed so far (sortedRecords, baseline, recentRecords,
\* z_scores, trends, svi) and computes the next ones.
analyze(recs) ==
  LET resultOf(sortedRecords, baseline, recentRecords, z_scores, trends, svi) ==
        [status |-> "ok",
         days_analyzed |-> Len(sortedRecords),
         start_date |-> sortedRecords[1].date,
         end_date |-> sortedRecords[Len(sortedRecords)].date,
         baseline |-> baseline,
         z_scores |-> z_scores,
         trends |-> trends,
         svi |-> svi,
         shdi |-> calculateSHDI(z_scores, trends, svi,
                                Min(BaselineDays, Len(sortedRecords)), Len(recentRecords)),
         phenotype |-> classifyPhenotype(z_scores, trends, svi)]
      fromWindows(sortedRecords, baseline, recentRecords) ==
        resultOf(sortedRecords, baseline, recentRecords,
                 calculateZScores(recentRecords, baseline),
                 detectTrends(sortedRecords),
                 computeSleepVariabilityIndex(sortedRecords))
      fromSorted(sortedRecords) ==
        IF Len(sortedRecords) < MinDays THEN InsufficientData
        ELSE fromWindows(sortedRecords, computeBaselineStats(sortedRecords),
                         SliceLast(sortedRecords, RecentDays))
  IN fromSorted(SortByDate(recs))

-----------------------------------------------------------------------------
(* SleepAnalyzer on measurements that are not whole numbers                *)
(*                                                                         *)
(* The schema admits any number inside the ranges.  The operators below    *)
(* are the same methods on records whose measurements are floating-point   *)
(* numbers: every sum is the reduce of the code, left to right, and every  *)
(* step rounds.  On whole numbers they compute what the operators above    *)
(* compute.                                                                *)

\* The reduce from element i on, acc being the sum so far (a sum that is
\* NaN stays NaN).
RECURSIVE FSumLeftFrom(_, _, _, _)
FSumLeftFrom(acc, arr, i, n) ==
  IF i > n \/ IsNaN(acc) THEN acc ELSE FSumLeftFrom(FAdd(acc, arr[i]), arr, i + 1, n)

\* arr.reduce((sum, val) => sum + val, 0) over the first n elements.
FSumLeft(arr, n) == FSumLeftFrom(Zero, arr, 1, n)

meanOfReals(arr) == FDiv(FSumLeft(arr, Len(arr)), FromInt(Len(arr)))

stdOfReals(arr) ==
  LET n == Len(arr)
      variance(avg) ==
        FDiv(FSumLeft([i \in 1..n |-> FSquare(FSub(arr[i], avg))], n), FromInt(n))
  IN FSqrt(variance(meanOfReals(arr)))

rmssdOfReals(totalSleep) ==
  LET n == Len(totalSleep)
      m == IF n = 0 THEN 0 ELSE n - 1
  IN FSqrt(FDiv(FSumLeft([i \in 1..m |-> FSquare(FSub(totalSleep[i + 1], totalSleep[i]))], m),
                FromInt(m)))

computeBaselineStatsOfReals(recs) ==
  IF Len(recs) < MinDays THEN InsufficientData
  ELSE LET baselineWindow == SliceLast(recs, Min(BaselineDays, Len(recs)))
           metrics(means, stds) ==
             [status |-> "ok",
              mean_total_sleep |-> means["total_sleep_min"],
              std_total_sleep |-> stds["total_sleep_min"],
              mean_efficiency |-> means["sleep_efficiency"],
              std_efficiency |-> stds["sleep_efficiency"],
              mean_deep |-> means["deep_sleep_min"], std_deep |-> stds["deep_sleep_min"],
              mean_rem |-> means["rem_sleep_min"], std_rem |-> stds["rem_sleep_min"],
              mean_awakenings |-> means["awakenings"], std_awakenings |-> stds["awakenings"],
              rmssd |-> rmssdOfReals(Column(baselineWindow, "total_sleep_min"))]
       IN metrics([f \in Measurements |-> meanOfReals(Column(baselineWindow, f))],
                  [f \in Measurements |-> stdOfReals(Column(baselineWindow, f))])

calculateZScoresOfReals(recentRecords, baseline) ==
  LET n == Len(recentRecords)
      zScores(z) ==
        [efficiency |-> z["efficiency"], deep_sleep |-> z["deep_sleep"],
         rem_sleep |-> z["rem_sleep"], awakenings |-> z["awakenings"]]
  IN IF n = 0
     THEN [efficiency |-> Zero, deep_sleep |-> Zero, rem_sleep |-> Zero, awakenings |-> Zero]
     ELSE zScores([k \in DOMAIN ZField |->
                     FDiv(FSub(meanOfReals(Column(recentRecords, ZField[k])),
                               baseline[ZMean[k]]),
                          sem(baseline[ZStd[k]], baseline[ZMean[k]], n))])

\* simple-statistics linearRegression: sumX, sumY, sumXX and sumXY are
\* accumulated point by point.
linearRegressionSlopeOfReals(y) ==
  LET n == Len(y)
      x(i) == FromInt(i - 1)
      m(sumX, sumY, sumXX, sumXY) ==
        FDiv(FSub(FMul(FromInt(n), sumXY), FMul(sumX, sumY)),
             FSub(FMul(FromInt(n), sumXX), FMul(sumX, sumX)))
  IN IF n = 1 THEN Zero
     ELSE m(FSumLeft([i \in 1..n |-> x(i)], n), FSumLeft(y, n),
            FSumLeft([i \in 1..n |-> FMul(x(i), x(i))], n),
            FSumLeft([i \in 1..n |-> FMul(x(i), y[i])], n))

calculateTrendPValueOfReals(y, slope) ==
  LET n == Len(y)
      x(i) == FromInt(i - 1)
      interceptOf(meanX, meanY) == FSub(meanY, FMul(slope, meanX))
      sseOf(intercept) ==
        FSumLeft([i \in 1..n |-> FSquare(FSub(y[i], FAdd(FMul(slope, x(i)), intercept)))], n)
      ssxOf(meanX) == FSumLeft([i \in 1..n |-> FSquare(FSub(x(i), meanX))], n)
      pOf(tStat) == FMul(FromInt(2), FSub(FromInt(1), tCDF(tStat, n - 2)))
      fromMeans(meanX, meanY) ==
        pOf(FAbs(FDiv(slope,
                      FSqrt(FDiv(FDiv(sseOf(interceptOf(meanX, meanY)), FromInt(n - 2)),
                                 ssxOf(meanX))))))
  IN IF n < 3 THEN FromInt(1)
     ELSE FMax(Zero, FMin(FromInt(1),
                          fromMeans(meanOfReals([i \in 1..n |-> x(i)]), meanOfReals(y))))

detectTrendsOfReals(recs) ==
  LET trendWindow == SliceLast(recs, Min(BaselineDays, Len(recs)))
      trendsOf(line, effPValue) ==
        [efficiency_slope |-> line["sleep_efficiency"],
         deep_slope |-> line["deep_sleep_min"],
         rem_slope |-> line["rem_sleep_min"],
         awakenings_slope |-> line["awakenings"],
         efficiency_pvalue |-> effPValue,
         has_significant_trend |-> hasSignificantTrend(effPValue, line["sleep_efficiency"])]
      fromLines(line) ==
        trendsOf(line, calculateTrendPValueOfReals(Column(trendWindow, "sleep_efficiency"),
                                                   line["sleep_efficiency"]))
  IN fromLines([f \in Measurements \ { "total_sleep_min" } |->
                  linearRegressionSlopeOfReals(Column(trendWindow, f))])

computeSleepVariabilityIndexOfReals(recs) ==
  LET totalSleep == Column(recs, "total_sleep_min")
      svi_raw(cv, rmssd_normalized) ==
        FAdd(FAdd(FAdd(FAdd(FMul(Dec(25, -2), cv["sleep_efficiency"]),
                            FMul(Dec(25, -2), cv["deep_sleep_min"])),
                       FMul(Dec(2, -1), cv["rem_sleep_min"])),
                  FMul(Dec(15, -2), cv["awakenings"])),
             FMul(Dec(15, -2), rmssd_normalized))
  IN FMin(FromInt(100),
          FMul(svi_raw([f \in Measurements \ { "total_sleep_min" } |->
                          FDiv(stdOfReals(Column(recs, f)),
                               FAdd(meanOfReals(Column(recs, f)), Epsilon))],
                       FDiv(rmssdOfReals(totalSleep),
                            FAdd(meanOfReals(totalSleep), Epsilon))),
               FromInt(200)))

analyzeOfReals(recs) ==
  LET resultOf(sortedRecords, baseline, recentRecords, z_scores, trends, svi) ==
        [status |-> "ok",
         days_analyzed |-> Len(sortedRecords),
         start_date |-> sortedRecords[1].date,
         end_date |-> sortedRecords[Len(sortedRecords)].date,
         baseline |-> baseline,
         z_scores |-> z_scores,
         trends |-> trends,
         svi |-> svi,
         shdi |-> calculateSHDI(z_scores, trends, svi,
                                Min(BaselineDays, Len(sortedRecords)), Len(recentRecords)),
         phenotype |-> classifyPhenotype(z_scores, trends, svi)]
      fromWindows(sortedRecords, baseline, recentRecords) ==
        resultOf(sortedRecords, baseline, recentRecords,
                 calculateZScoresOfReals(recentRecords, baseline),
                 detectTrendsOfReals(sortedRecords),
                 computeSleepVariabilityIndexOfReals(sortedRecords))
      fromSorted(sortedRecords) ==
        IF Len(sortedRecords) < MinDays THEN InsufficientData
        ELSE fromWindows(sortedRecords, computeBaselineStatsOfReals(sortedRecords),
                         SliceLast(sortedRecords, RecentDays))
  IN fromSorted(SortByDate(recs))

-----------------------------------------------------------------------------
(* State                                                                   *)

VARIABLES
  records,   \* the caller's array of SleepRecord handed to the engine
  result,    \* what the last analyze(records) call returned or threw
  prior,     \* what the analyze call before the caller's last change returned
  call,      \* the arguments of a direct call of one of the engine's methods
  ret,       \* what that direct call returned or threw
  analyzers,       \* the instance fields of each SleepAnalyzer object
  kv,              \* the @vercel/kv client: null, or the entries of the store by key
  analysisCache,   \* global.analysisCache: the entries of the in-memory cache by id
  isKVConfigured,  \* KV_REST_API_URL and KV_REST_API_TOKEN are both set
  lastSet,         \* history: by id, the value of the latest setAnalysis that resolved
  orchestrator,    \* a SOMNIOrchestrator object and the orchestrate call running on it
  request          \* a POST /api/analyze request: where its handler stands

\* The state of the cache module (lib/cache.ts).
cacheVars == << kv, analysisCache, isKVConfigured, lastSet >>

\* The report agent and the analyze route.
agentVars == << orchestrator, request >>

vars == << records, result, prior, call, ret, analyzers, cacheVars, agentVars >>

\* The SleepAnalyzer objects of the program; the class declares no instance
\* field (its constants are static), so an object's fields are the empty record.
Instances == { 1, 2 }
NoFields == << >>

\* No entry: an empty store, an empty cache.
NoEntries == << >>
Null == [status |-> "null"]

\* The engine's objects as constructed, the cache module as loaded without
\* KV configured, no report agent and no request.
Untouched ==
  /\ analyzers = [i \in Instances |-> NoFields]
  /\ kv = Null
  /\ analysisCache = NoEntries
  /\ isKVConfigured = FALSE
  /\ lastSet = NoEntries
  /\ orchestrator = Null
  /\ request = Null

\* Variant of a call of analyze: records.sort(...) on the caller's array
\* itself instead of on the copy [...records].
analyzeCallSortInPlace(this, recs) ==
  [this |-> this, records |-> SortByDate(recs), returned |-> analyze(recs)]

\* Variant of a call of analyze: the first result of an object kept in a
\* field and returned by its later calls.
analyzeCallMemo(this, recs) ==
  IF this = NoFields
  THEN [this |-> << analyze(recs) >>, records |-> recs, returned |-> analyze(recs)]
  ELSE [this |-> this, records |-> recs, returned |-> this[1]]

\* A call of analyze on an object with fields `this` and the caller's array
\* recs: what it leaves in the object's fields (no field is assigned) and in
\* the caller's array (the sort works on the copy [...records]), and what it
\* returns or throws.
analyzeCall(this, recs) ==
  [this |-> this, records |-> recs, returned |-> analyze(recs)]

None == [status |-> "none"]
NoCall == [fn |-> "none"]

\* A SleepRecord: the date is a day number, the measurements are integers.
Rec(d, p) ==
  [date |-> d, total_sleep_min |-> p[1], sleep_efficiency |-> p[2],
   deep_sleep_min |-> p[3], rem_sleep_min |-> p[4], awakenings |-> p[5]]

\* Nights the inputs are made of: <<total sleep, efficiency, deep, REM, awakenings>>.
Stable == << 490, 94, 120, 120, 1 >>
Dip == << 490, 93, 120, 120, 1 >>
DegradedLow == << 330, 72, 40, 60, 9 >>
DegradedHigh == << 350, 75, 50, 70, 11 >>
Nothing == << 0, 0, 0, 0, 0 >>
Best == << 490, 100, 360, 360, 0 >>
Worst == << 0, 0, 0, 0, 50 >>
Profiles == { Stable, Dip, DegradedLow, DegradedHigh, Nothing, Best, Worst }

\* Records beyond the 30-day window in the longest inputs.
MaxExtraDays == 1
Lengths ==
  { 0, 1, MinDays - 1, MinDays, MinDays + 1, BaselineDays - 1, BaselineDays } \cup
  { BaselineDays + x : x \in 1..MaxExtraDays }
\* Lengths of the changed tail of an input.
Tails == { 1, 3, 6, RecentDays, RecentDays + 1 }

\* n nights in date order: profile a, the last k of them profile b.
TwoBlock(n, k, a, b) == [i \in 1..n |-> Rec(i, IF i <= n - k THEN a ELSE b)]

\* The same nights handed over latest first.
Reversed(arr) == [i \in 1..Len(arr) |-> arr[Len(arr) + 1 - i]]

\* 23 stable nights followed by 7 degraded ones (each low or high in its range).
ScenarioB(tail) == [i \in 1..30 |-> Rec(i, IF i <= 23 THEN Stable ELSE tail[i - 23])]

\* A steady change of efficiency by d per night from 60, the rest stable.
Steady(n, d) == [i \in 1..n |-> Rec(i, << 490, 60 + d * i, 120, 120, 1 >>)]

Inputs ==
  { TwoBlock(n, k, a, b) : n \in Lengths, k \in Tails, a \in Profiles, b \in Profiles }
  \cup { Reversed(TwoBlock(MinDays + 1, k, Stable, b)) : k \in Tails, b \in Profiles }
  \cup { ScenarioB(t) : t \in [1..7 -> { DegradedLow, DegradedHigh }] }
  \cup { Steady(n, d) : n \in { MinDays, BaselineDays }, d \in { -1, 1 } }

-----------------------------------------------------------------------------
(* The engine called on one input                                         *)

Init ==
  /\ records \in Inputs
  /\ result = None
  /\ prior = None
  /\ call = NoCall
  /\ ret = None
  /\ Untouched

\* analyzer.analyze(records)
Analyze ==
  /\ result = None
  /\ call = NoCall
  /\ result' = analyze(records)
  /\ UNCHANGED << records, prior, call, ret >>
  /\ UNCHANGED << analyzers, cacheVars, agentVars >>

\* analyzer.computeBaselineStats(records), called directly
CallComputeBaselineStats ==
  /\ result = None
  /\ call = NoCall
  /\ call' = [fn |-> "computeBaselineStats"]
  /\ ret' = computeBaselineStats(records)
  /\ UNCHANGED << records, result, prior >>
  /\ UNCHANGED << analyzers, cacheVars, agentVars >>

Next == Analyze \/ CallComputeBaselineStats

Spec == Init /\ [][Next]_vars

-----------------------------------------------------------------------------
(* Properties of one analysis                                              *)

Ok(r) == r.status = "ok"

\* The input is Scenario B: 30 nights in date order, 23 stable ones followed
\* by 7 degraded ones within the scenario's ranges.
IsScenarioB(recs) ==
  /\ Len(recs) = 30
  /\ \A i \in 1..30 : recs[i].date = i
  /\ \A i \in 1..23 : recs[i] = Rec(i, Stable)
  /\ \A i \in 24..30 :
       /\ recs[i].total_sleep_min \in 330..350
       /\ recs[i].sleep_efficiency \in 72..75
       /\ recs[i].deep_sleep_min \in 40..50
       /\ recs[i].rem_sleep_min \in 60..70
       /\ recs[i].awakenings \in 9..11

(* C1: with fewer than 14 records analyze ends in the insufficient-data error
   and returns nothing else (no baseline, z-scores, trends, SVI, SHDI or
   phenotype); computeBaselineStats called directly on such an input ends in
   the same error. *)
C1_InsufficientDataError ==
  /\ (result.status # "none" /\ Len(records) < 14) =>
       /\ result.status = "error"
       /\ result.message = "Insufficient data: minimum 14 days required"
       /\ DOMAIN result = { "status", "message" }
  /\ (call.fn = "computeBaselineStats" /\ Len(records) < 14) =>
       /\ ret.status = "error"
       /\ ret.message = "Insufficient data: minimum 14 days required"
       /\ DOMAIN ret = { "status", "message" }
  /\ (result.status # "none" /\ Len(records) >= 14) => Ok(result)

C1_Witness == Len(records) = 13 /\ result.status = "error"

(* C3: every analysis of in-range records has 0 <= SHDI.score <= 100, and
   its category is stable exactly when the score is below 30, moderate_drift
   exactly when it is at least 30 and below 60, significant_drift exactly
   when it is at least 60. *)
C3_SHDIScoreAndCategory ==
  Ok(result) =>
    LET score == result.shdi.score
        category == result.shdi.category
    IN /\ FLe(Zero, score)
       /\ FLe(score, FromInt(100))
       /\ (category = "stable") <=> FLt(score, FromInt(30))
       /\ (category = "moderate_drift") <=>
            (FGe(score, FromInt(30)) /\ FLt(score, FromInt(60)))
       /\ (category = "significant_drift") <=> FGe(score, FromInt(60))

C3_Witness ==
  /\ Ok(result)
  /\ result.shdi.score = FromInt(100)
  /\ result.shdi.category = "significant_drift"

\* The numbers of a result that the degenerate cases could leave undefined.
Numbers(r) ==
  { r.baseline.mean_efficiency, r.baseline.std_efficiency, r.baseline.mean_deep,
    r.baseline.std_deep, r.baseline.mean_rem, r.baseline.std_rem,
    r.baseline.mean_awakenings, r.baseline.std_awakenings, r.baseline.rmssd,
    r.z_scores.efficiency, r.z_scores.deep_sleep, r.z_scores.rem_sleep,
    r.z_scores.awakenings, r.trends.efficiency_slope, r.trends.deep_slope,
    r.trends.rem_slope, r.trends.awakenings_slope, r.trends.efficiency_pvalue, r.svi, r.shdi.score, r.shdi.confidence,
    r.phenotype.confidence }

(* C5: no analysis produces NaN or an infinity, whatever is degenerate in the
   input (zero baseline deviation, zero mean, zero total sleep, zero residual
   variance, zero degrees of freedom), and the p-value lies in [0, 1]. *)
C5_NoNaNNoInfinity ==
  Ok(result) =>
    /\ \A x \in Numbers(result) : IsNum(x)
    /\ FLe(Zero, result.trends.efficiency_pvalue)
    /\ FLe(result.trends.efficiency_pvalue, FromInt(1))

(* C8: has_significant_trend is true exactly when the efficiency p-value is
   below 0.05 and the efficiency slope is below -0.02 %/day; a flat or an
   improving series never has it. *)
C8_SignificantTrendIff ==
  Ok(result) =>
    LET t == result.trends
    IN /\ t.has_significant_trend <=>
            (FLt(t.efficiency_pvalue, Dec(5, -2)) /\ FLt(t.efficiency_slope, Dec(-2, -2)))
       /\ FGe(t.efficiency_slope, Zero) => ~t.has_significant_trend

C8_Witness ==
  /\ Ok(result)
  /\ result.trends.has_significant_trend
  /\ FGt(result.trends.efficiency_slope, Dec(-4, -2))

(* C9 as stated: Scenario B scores an SHDI of at least 60, category
   significant_drift. *)
C9_ScenarioBSignificantDrift ==
  (Ok(result) /\ IsScenarioB(records)) =>
    /\ FGe(result.shdi.score, FromInt(60))
    /\ result.shdi.category = "significant_drift"

(* C9: Scenario B scores an SHDI of at least 30 and below 60 (between 41 and
   43), category moderate_drift, with a significant efficiency trend. *)
C9_ScenarioBModerateDrift ==
  (Ok(result) /\ IsScenarioB(records)) =>
    /\ FGe(result.shdi.score, FromInt(41))
    /\ FLt(result.shdi.score, FromInt(43))
    /\ result.shdi.category = "moderate_drift"
    /\ result.trends.has_significant_trend

C9_Witness ==
  /\ IsScenarioB(records)
  /\ Ok(result)
  /\ result.shdi.category = "moderate_drift"

(* C10 as stated: in Scenario B the deep-sleep and REM z-scores are negative,
   the awakenings z-score is positive, and the primary pattern is
   fragmentation_dominant or deep_sleep_reduction. *)
C10_ScenarioBFragmentationOrDeep ==
  (Ok(result) /\ IsScenarioB(records)) =>
    /\ FLt(result.z_scores.deep_sleep, Zero)
    /\ FLt(result.z_scores.rem_sleep, Zero)
    /\ FGt(result.z_scores.awakenings, Zero)
    /\ result.phenotype.primary_pattern \in
         { "fragmentation_dominant", "deep_sleep_reduction" }

(* C10: in Scenario B the deep-sleep and REM z-scores are negative, the
   awakenings z-score is positive, and the primary pattern is
   efficiency_instability, whose match score exceeds those of the
   fragmentation, deep-sleep and REM patterns. *)
C10_ScenarioBEfficiencyInstability ==
  (Ok(result) /\ IsScenarioB(records)) =>
    LET scores == phenotypeScores(result.z_scores, result.trends, result.svi)
    IN /\ FLt(result.z_scores.deep_sleep, Zero)
       /\ FLt(result.z_scores.rem_sleep, Zero)
       /\ FGt(result.z_scores.awakenings, Zero)
       /\ result.phenotype.primary_pattern = "efficiency_instability"
       /\ \A k \in { "fragmentation_dominant", "deep_sleep_reduction", "rem_instability" } :
            FGt(scores.efficiency_instability, scores[k])

C10_Witness ==
  /\ IsScenarioB(records)
  /\ Ok(result)
  /\ result.phenotype.primary_pattern = "efficiency_instability"
  /\ FGt(result.z_scores.awakenings, FromInt(4))


\* The largest square of a z-score of the result r.
WindowGap(r) == Min(BaselineDays, r.days_analyzed) - RecentDays

(* C27 as stated: the z-scores produced by analyze are bounded: the recent
   window (last 7 records) lies inside the baseline window (last min(30, N)
   records), so every z-score satisfies z^2 <= n_baseline - n_recent for
   every input. *)
C27_ZScoreSquareAtMostGap ==
  Ok(result) =>
    \A f \in DOMAIN result.z_scores :
      FLe(FMul(result.z_scores[f], result.z_scores[f]), FromInt(WindowGap(result)))

(* C27 amended: every z-score produced by analyze satisfies
   z^2 <= n_baseline - n_recent up to the rounding of the arithmetic: when
   the recent nights all differ from the other baseline nights by the same
   amount the bound is attained and the computed z^2 can exceed it in its
   last digits, never by more than one part in 100000. *)
C27_ZScoreBounded ==
  Ok(result) =>
    \A f \in DOMAIN result.z_scores :
      /\ IsNum(result.z_scores[f])
      /\ FLe(FMul(result.z_scores[f], result.z_scores[f]),
             FMul(FromInt(WindowGap(result)), Dec(100001, -5)))

\* Thirty nights, the last seven apart from the others: a z-score whose
\* square is at the bound of 23.
C27_Witness ==
  /\ Ok(result)
  /\ result.days_analyzed = BaselineDays
  /\ \E f \in DOMAIN result.z_scores :
       /\ FGe(FMul(result.z_scores[f], result.z_scores[f]), Dec(229999, -4))
       /\ FLe(FMul(result.z_scores[f], result.z_scores[f]), Dec(230001, -4))

(* C28: through analyze the recent-day count passed to calculateSHDI is
   always 7 and the baseline-day count is min(30, N) with N >= 14, so
   SHDI.confidence equals 0.65 + 0.35*min(30, N)/30 (up to the rounding of
   the last digits), always lies between 0.65 + 0.35*14/30 (about 0.813, at
   exactly 14 records) and 1.0, equals 1.0 if and only if N >= 30, and the
   documented 0.35 floor is unreachable. 6000 times the confidence is
   3900 + 70*min(30, N). *)
C28_ConfidenceThroughAnalyze ==
  Ok(result) =>
    LET N == result.days_analyzed
        confidence == result.shdi.confidence
    IN /\ N >= 14
       /\ confidence = calculateSHDI(result.z_scores, result.trends, result.svi,
                                     Min(30, N), 7).confidence
       /\ FLe(FAbs(FSub(FMul(confidence, FromInt(6000)), FromInt(3900 + 70 * Min(30, N)))),
              Dec(1, -2))
       /\ FGe(confidence, Dec(81333, -5))
       /\ FLe(confidence, FromInt(1))
       /\ confidence = FromInt(1) <=> N >= 30
       /\ FGt(confidence, Dec(35, -2))

\* Exactly 14 records: a confidence of about 0.813.
C28_Witness ==
  /\ Ok(result)
  /\ result.days_analyzed = 14
  /\ FGe(result.shdi.confidence, Dec(81333, -5))
  /\ FLe(result.shdi.confidence, Dec(81334, -5))
\* C30: the division by zero of RMSSD is unreachable in the baseline
\* computation. computeBaselineStats rejects fewer than 14 records, so a
\* computed baseline comes from a window of 14 to 30 records, its list of
\* successive differences has at least 13 elements, and rmssd is a number,
\* never NaN, both when called directly and through analyze.
BaselineWindowLength == Min(30, Len(records))

C30_RmssdNeverNaN ==
  /\ call.fn = "computeBaselineStats" =>
       /\ Len(records) < 14 <=> ret = InsufficientData
       /\ Ok(ret) =>
            /\ BaselineWindowLength \in 14..30
            /\ BaselineWindowLength - 1 >= 13
            /\ IsNum(ret.rmssd)
            /\ FGe(ret.rmssd, Zero)
  /\ Ok(result) =>
       /\ BaselineWindowLength \in 14..30
       /\ BaselineWindowLength - 1 >= 13
       /\ ~ IsNaN(result.baseline.rmssd)
       /\ result.baseline.rmssd = rmssdOf(Column(SliceLast(records, BaselineWindowLength),
                                                 "total_sleep_min"))

C30_Witness ==
  /\ call.fn = "computeBaselineStats"
  /\ Len(records) = 14
  /\ Ok(ret)
  /\ FGt(ret.rmssd, Zero)
-----------------------------------------------------------------------------
(* The engine called again after the caller reorders its array            *)

\* The array with the record at j + 1 dated like the record at j.
WithTie(arr, j) ==
  [i \in 1..Len(arr) |-> IF i = j + 1 THEN [arr[i] EXCEPT !.date = arr[j].date] ELSE arr[i]]

\* The array with the records at i and j exchanged.
Swapped(arr, i, j) ==
  [x \in 1..Len(arr) |-> IF x = i THEN arr[j] ELSE IF x = j THEN arr[i] ELSE arr[x]]

HasTie(recs) ==
  \E i, j \in 1..Len(recs) : i # j /\ recs[i].date = recs[j].date

ShuffleBase ==
  { TwoBlock(n, k, Stable, b) :
      n \in { MinDays, MinDays + 1 }, k \in { 1, RecentDays }, b \in { Dip, DegradedLow } }

ShuffleInputs ==
  ShuffleBase \cup { WithTie(arr, j) : arr \in ShuffleBase, j \in { 1, MinDays - RecentDays, MinDays - 1 } }

InitShuffle ==
  /\ records \in ShuffleInputs
  /\ result = None
  /\ prior = None
  /\ call = NoCall
  /\ ret = None
  /\ Untouched

\* The caller exchanges two records of its array and asks for a new analysis.
Shuffle ==
  /\ result.status # "none"
  /\ prior.status = "none"
  /\ \E i, j \in 1..Len(records) :
       /\ i < j
       /\ records' = Swapped(records, i, j)
  /\ prior' = result
  /\ result' = None
  /\ UNCHANGED << call, ret >>
  /\ UNCHANGED << analyzers, cacheVars, agentVars >>

NextShuffle == Analyze \/ Shuffle

SpecShuffle == InitShuffle /\ [][NextShuffle]_vars

(* C2: the analysis of a permutation of the records equals the analysis of
   the records in every output field, also when several records carry the
   same date. *)
C2_OrderIndependence ==
  (prior.status # "none" /\ result.status # "none") => result = prior

-----------------------------------------------------------------------------
(* The engine called again after the caller changes an old record          *)

\* The record at i is older than the last 30 by date.
OlderThanLast30(recs, i) ==
  Cardinality({ j \in 1..Len(recs) : recs[j].date >= recs[i].date }) > 30

EditInputs ==
  LET base == { TwoBlock(BaselineDays + x, k, a, b) :
                  x \in 1..MaxExtraDays, k \in { 1, RecentDays },
                  a \in { Stable, Best }, b \in { DegradedLow, Nothing, Worst } }
  IN base \cup { Reversed(arr) : arr \in base }

InitEdit ==
  /\ records \in EditInputs
  /\ result = None
  /\ prior = None
  /\ call = NoCall
  /\ ret = None
  /\ Untouched

\* The caller replaces the measurements of a record older than the last 30
\* and asks for a new analysis.
EditOldRecord ==
  /\ result.status # "none"
  /\ prior.status = "none"
  /\ \E i \in 1..Len(records), p \in Profiles :
       /\ OlderThanLast30(records, i)
       /\ Rec(records[i].date, p) # records[i]
       /\ records' = [records EXCEPT ![i] = Rec(records[i].date, p)]
  /\ prior' = result
  /\ result' = None
  /\ UNCHANGED << call, ret >>
  /\ UNCHANGED << analyzers, cacheVars, agentVars >>

NextEdit == Analyze \/ EditOldRecord

SpecEdit == InitEdit /\ [][NextEdit]_vars

\* The last min(k, N) records by date.
LastByDate(recs, k) ==
  LET s == SortByDate(recs)
      n == IF Len(s) < k THEN Len(s) ELSE k
  IN [i \in 1..n |-> s[Len(s) - n + i]]

(* C6 as stated: changing a record older than the last 30 changes no field of
   the result other than svi, days_analyzed and start_date. *)
C6_OnlySviChanges ==
  (Ok(prior) /\ Ok(result)) =>
    /\ result.baseline = prior.baseline
    /\ result.z_scores = prior.z_scores
    /\ result.trends = prior.trends
    /\ result.shdi = prior.shdi
    /\ result.phenotype = prior.phenotype
    /\ result.end_date = prior.end_date

(* C6: the baseline statistics and the trend regression are those of the last
   min(30, N) records by date and the recent means those of the last
   min(7, N); changing a record older than the last 30 changes no field of
   baseline, z_scores or trends, nor end_date or the SHDI confidence (svi may
   change, and with it the SHDI score and category and the phenotype). *)
C6_Windowing ==
  /\ Ok(result) =>
       LET last30 == LastByDate(records, 30)
           last7 == LastByDate(records, 7)
       IN /\ result.baseline.mean_efficiency = mean(Column(last30, "sleep_efficiency"))
          /\ result.baseline.std_deep = std(Column(last30, "deep_sleep_min"))
          /\ result.baseline.mean_awakenings = mean(Column(last30, "awakenings"))
          /\ result.trends.efficiency_slope =
               linearRegressionSlope(Column(last30, "sleep_efficiency"))
          /\ result.trends.rem_slope = linearRegressionSlope(Column(last30, "rem_sleep_min"))
          /\ result.z_scores = calculateZScores(last7, result.baseline)
  /\ (Ok(prior) /\ Ok(result)) =>
       /\ result.baseline = prior.baseline
       /\ result.z_scores = prior.z_scores
       /\ result.trends = prior.trends
       /\ result.shdi.confidence = prior.shdi.confidence
       /\ result.end_date = prior.end_date
       /\ result.days_analyzed = prior.days_analyzed

C6_Witness ==
  /\ Ok(prior)
  /\ Ok(result)
  /\ result.svi # prior.svi
  /\ result.shdi.score # prior.shdi.score
  /\ result.baseline = prior.baseline

-----------------------------------------------------------------------------
(* calculateZScores and classifyPhenotype called directly                  *)

InitCall ==
  /\ records = << >>
  /\ result = None
  /\ prior = None
  /\ call = NoCall
  /\ ret = None
  /\ Untouched

\* Baseline mean and deviation of one metric: <<mean, std>>.
MeanStd ==
  { << FromInt(94), Zero >>, << FromInt(94), Dec(15, -1) >>, << Zero, Zero >>,
    << FromInt(120), FromInt(40) >> }

BaselineOf(e, o) ==
  [status |-> "ok",
   mean_efficiency |-> e[1], std_efficiency |-> e[2],
   mean_deep |-> o[1], std_deep |-> o[2],
   mean_rem |-> o[1], std_rem |-> o[2],
   mean_awakenings |-> e[1], std_awakenings |-> e[2],
   mean_total_sleep |-> FromInt(490), std_total_sleep |-> Zero,
   rmssd |-> Zero]

\* Longest recent window handed to calculateZScores.
MaxRecent == 2
RecentProfiles == { Stable, Dip, DegradedLow, Nothing, Best }
RecentWindows ==
  UNION { [1..n -> { Rec(1, p) : p \in RecentProfiles }] : n \in 0..MaxRecent }

\* analyzer.calculateZScores(recentRecords, baseline)
CallCalculateZScores ==
  /\ call = NoCall
  /\ \E rr \in RecentWindows, e \in MeanStd, o \in MeanStd :
       /\ call' = [fn |-> "calculateZScores", recentRecords |-> rr, baseline |-> BaselineOf(e, o)]
       /\ ret' = calculateZScores(rr, BaselineOf(e, o))
  /\ UNCHANGED << records, result, prior >>
  /\ UNCHANGED << analyzers, cacheVars, agentVars >>

NextZ == CallCalculateZScores

SpecZ == InitCall /\ [][NextZ]_vars

\* The sign of z matches the sign of (recentMean - baselineMean).
SignAgrees(z, recentMean, baselineMean) ==
  /\ FGt(recentMean, baselineMean) => FGt(z, Zero)
  /\ FLt(recentMean, baselineMean) => FLt(z, Zero)
  /\ FEq(recentMean, baselineMean) => z = Zero

(* C7: each z-score returned by calculateZScores is strictly positive when
   the recent-window mean is above the baseline mean, strictly negative when
   it is below, and zero when they are equal; the floored standard error it
   divides by is strictly positive. *)
C7_ZScoreSign ==
  (call.fn = "calculateZScores" /\ Len(call.recentRecords) > 0) =>
    LET rr == call.recentRecords
        b == call.baseline
        n == Len(rr)
    IN /\ SignAgrees(ret.efficiency, mean(Column(rr, "sleep_efficiency")), b.mean_efficiency)
       /\ SignAgrees(ret.deep_sleep, mean(Column(rr, "deep_sleep_min")), b.mean_deep)
       /\ SignAgrees(ret.rem_sleep, mean(Column(rr, "rem_sleep_min")), b.mean_rem)
       /\ SignAgrees(ret.awakenings, mean(Column(rr, "awakenings")), b.mean_awakenings)
       /\ FGt(sem(b.std_efficiency, b.mean_efficiency, n), Zero)
       /\ FGt(sem(b.std_deep, b.mean_deep, n), Zero)
       /\ FGt(sem(b.std_rem, b.mean_rem, n), Zero)
       /\ FGt(sem(b.std_awakenings, b.mean_awakenings, n), Zero)

C7_Witness ==
  /\ call.fn = "calculateZScores"
  /\ call.baseline.std_efficiency = Zero
  /\ FGt(ret.efficiency, Zero)
  /\ ret.deep_sleep = Zero

ZValues == { NaN, FromInt(-2), Dec(-5, -1), Zero, Dec(15, -1), FromInt(3) }
SlopeValues == { Dec(-1, -1), Zero, Dec(5, -2) }
SviValues == { Zero, FromInt(50), FromInt(100) }

TrendsOf(slope) ==
  [efficiency_slope |-> slope, deep_slope |-> Zero, rem_slope |-> Zero,
   awakenings_slope |-> Zero, efficiency_pvalue |-> FromInt(1),
   has_significant_trend |-> FALSE]

\* analyzer.classifyPhenotype(z_scores, trends, svi)
CallClassifyPhenotype ==
  /\ call = NoCall
  /\ \E za \in ZValues, zd \in ZValues, zr \in ZValues, slope \in SlopeValues, svi \in SviValues :
       LET z == [efficiency |-> Zero, deep_sleep |-> zd, rem_sleep |-> zr, awakenings |-> za]
       IN /\ call' = [fn |-> "classifyPhenotype", z_scores |-> z,
                      trends |-> TrendsOf(slope), svi |-> svi]
          /\ ret' = classifyPhenotype(z, TrendsOf(slope), svi)
  /\ UNCHANGED << records, result, prior >>
  /\ UNCHANGED << analyzers, cacheVars, agentVars >>

NextPhenotype == CallClassifyPhenotype

SpecPhenotype == InitCall /\ [][NextPhenotype]_vars

(* C4: classifyPhenotype always returns one of the four patterns, with the
   domains and the evidence strength of that pattern's row: fragmentation ->
   cardiovascular, metabolic, strong; deep sleep -> cardiometabolic,
   cognitive, strong; REM -> cognitive, neurological, moderate; efficiency ->
   metabolic, mental_health, moderate. 'emerging' is never returned. *)
C4_PhenotypeTable ==
  call.fn = "classifyPhenotype" =>
    /\ \/ /\ ret.primary_pattern = "fragmentation_dominant"
          /\ ret.associated_domains = << "cardiovascular", "metabolic" >>
          /\ ret.evidence_strength = "strong"
       \/ /\ ret.primary_pattern = "deep_sleep_reduction"
          /\ ret.associated_domains = << "cardiometabolic", "cognitive" >>
          /\ ret.evidence_strength = "strong"
       \/ /\ ret.primary_pattern = "rem_instability"
          /\ ret.associated_domains = << "cognitive", "neurological" >>
          /\ ret.evidence_strength = "moderate"
       \/ /\ ret.primary_pattern = "efficiency_instability"
          /\ ret.associated_domains = << "metabolic", "mental_health" >>
          /\ ret.evidence_strength = "moderate"
    /\ ret.evidence_strength # "emerging"

C4_Witness ==
  /\ call.fn = "classifyPhenotype"
  /\ ret.primary_pattern = "rem_instability"
  /\ ret.evidence_strength = "moderate"
  /\ IsNaN(call.z_scores.awakenings)

-----------------------------------------------------------------------------
(* The engine called on identical nights                                   *)

\* A SleepRecord whose measurements are floating-point numbers.
RealRec(d, p) ==
  [date |-> d, total_sleep_min |-> p[1], sleep_efficiency |-> p[2],
   deep_sleep_min |-> p[3], rem_sleep_min |-> p[4], awakenings |-> p[5]]

\* One night repeated: whole numbers, and in-range values that are not
\* (412.73456, 33.333333, 87.654321, 95.123457, 2.5).
FlatNights ==
  { << ts, eff, deep, rem, aw >> :
      ts \in { FromInt(490), Dec(41273456, -5) },
      eff \in { FromInt(94), Dec(33333333, -6), Dec(87654321, -6) },
      deep \in { FromInt(120), Dec(95123457, -6) },
      rem \in { FromInt(120), Dec(33333333, -6) },
      aw \in { FromInt(1), FromInt(0), Dec(25, -1) } }

FlatLengths == { MinDays, MinDays + 1, BaselineDays } \cup { BaselineDays + x : x \in 1..MaxExtraDays }

FlatInputs == { [i \in 1..n |-> RealRec(i, p)] : n \in FlatLengths, p \in FlatNights }

InitFlat ==
  /\ records \in FlatInputs
  /\ result = None
  /\ prior = None
  /\ call = NoCall
  /\ ret = None
  /\ Untouched

\* analyzer.analyze(records) on these records
AnalyzeReals ==
  /\ result = None
  /\ result' = analyzeOfReals(records)
  /\ UNCHANGED << records, prior, call, ret >>
  /\ UNCHANGED << analyzers, cacheVars, agentVars >>

NextFlat == AnalyzeReals

SpecFlat == InitFlat /\ [][NextFlat]_vars

\* x is a whole number.
IsWhole(x) == IsNum(x) /\ (x.e >= 0 \/ x.m % Pow10(-x.e) = 0)

AllWhole(recs) == \A i \in 1..Len(recs) : \A f \in Measurements : IsWhole(recs[i][f])

IsFlat(recs) == \A i \in 1..Len(recs) : \A f \in Measurements : recs[i][f] = recs[1][f]

\* Every deviation, the rmssd, every z-score, every slope, the svi and the
\* SHDI score of r are exactly 0 and the category is stable.
AllZero(r) ==
  /\ r.baseline.std_total_sleep = Zero /\ r.baseline.std_efficiency = Zero
  /\ r.baseline.std_deep = Zero /\ r.baseline.std_rem = Zero
  /\ r.baseline.std_awakenings = Zero /\ r.baseline.rmssd = Zero
  /\ r.z_scores.efficiency = Zero /\ r.z_scores.deep_sleep = Zero
  /\ r.z_scores.rem_sleep = Zero /\ r.z_scores.awakenings = Zero
  /\ r.trends.efficiency_slope = Zero /\ r.trends.deep_slope = Zero
  /\ r.trends.rem_slope = Zero /\ r.trends.awakenings_slope = Zero
  /\ r.svi = Zero
  /\ r.shdi.score = Zero
  /\ r.shdi.category = "stable"

\* C11 as stated: for any N >= 14 records whose five measurements are the
\* same on every night, every baseline deviation and the rmssd are 0, the
\* four z-scores are exactly 0, the slopes are 0, svi is 0, the SHDI score is
\* 0 and the category is stable.
C11_IdenticalNightsAllZero ==
  (Ok(result) /\ IsFlat(records)) => AllZero(result)

\* C11, amended: for any N >= 14 records whose five measurements are the
\* same whole numbers on every night all of these are exactly 0 and the
\* category is stable; when the repeated values are not whole numbers the
\* sums round, the z-scores stay finite numbers, the SHDI score stays below
\* 30 and the category is still stable.
C11_WholeNumberNightsAllZero ==
  /\ (Ok(result) /\ IsFlat(records) /\ AllWhole(records)) => AllZero(result)
  /\ (Ok(result) /\ IsFlat(records)) =>
       /\ IsNum(result.z_scores.efficiency) /\ IsNum(result.z_scores.deep_sleep)
       /\ IsNum(result.z_scores.rem_sleep) /\ IsNum(result.z_scores.awakenings)
       /\ FLt(result.shdi.score, FromInt(30))
       /\ result.shdi.category = "stable"

\* Whole-number nights beyond the 30-day window analysed, and nights that
\* are not whole numbers analysed to a deviation that is not 0.
C11_Witness ==
  /\ Ok(result)
  /\ Len(records) > BaselineDays
  /\ AllWhole(records)
  /\ result.baseline.mean_efficiency = FromInt(94)
  /\ result.shdi.score = Zero


-----------------------------------------------------------------------------
(* calculateSHDI called directly, twice                                    *)

\* Deviations that make each of the five components 10: z-scores of size 1,
\* an efficiency slope of -0.2 per day (times 50) and an svi of 100 (by 10).
TenEach ==
  [z_scores |-> [efficiency |-> Zero, deep_sleep |-> FromInt(-1), rem_sleep |-> FromInt(1),
                 awakenings |-> FromInt(1)],
   trends |-> TrendsOf(Dec(-2, -1)), svi |-> FromInt(100)]

\* The deviations handed over: none at all, large ones, or ten each.
SHDIDeviations ==
  { [z_scores |-> [efficiency |-> Zero, deep_sleep |-> Zero, rem_sleep |-> Zero,
                   awakenings |-> Zero],
     trends |-> TrendsOf(Zero), svi |-> Zero],
    [z_scores |-> [efficiency |-> FromInt(-3), deep_sleep |-> FromInt(-2),
                   rem_sleep |-> Dec(15, -1), awakenings |-> FromInt(3)],
     trends |-> TrendsOf(Dec(-1, -1)), svi |-> FromInt(50)],
    TenEach }

BaselineDayCounts ==
  { 0, 1, MinDays, BaselineDays - 1, BaselineDays } \cup
  { BaselineDays + x : x \in 1..MaxExtraDays }
RecentDayCounts == { 0, 1, RecentDays - 1, RecentDays, RecentDays + 1 }

\* analyzer.calculateSHDI(z_scores, trends, svi, nBaselineDays, nRecentDays);
\* prior keeps the call before and what it returned.
CallCalculateSHDI ==
  /\ prior = None
  /\ \E d \in SHDIDeviations, nb \in BaselineDayCounts, nr \in RecentDayCounts :
       /\ call' = [fn |-> "calculateSHDI", z_scores |-> d.z_scores, trends |-> d.trends,
                   svi |-> d.svi, nBaselineDays |-> nb, nRecentDays |-> nr]
       /\ ret' = calculateSHDI(d.z_scores, d.trends, d.svi, nb, nr)
  /\ prior' = IF call = NoCall THEN None ELSE [status |-> "called", call |-> call, ret |-> ret]
  /\ UNCHANGED << records, result >>
  /\ UNCHANGED << analyzers, cacheVars, agentVars >>

NextSHDI == CallCalculateSHDI

SpecSHDI == InitCall /\ [][NextSHDI]_vars

\* 21000 times the confidence the formula gives for the two counts, as an
\* exact integer: 21000 * 0.35 = 7350, 21000 * 0.35 / 30 = 245 and
\* 21000 * 0.30 / 7 = 900.
ConfidenceTimes21000(nb, nr) == Min(21000, 7350 + 245 * Min(30, nb) + 900 * Min(7, nr))

(* C12: the confidence returned by calculateSHDI equals
   min(1, 0.35 + 0.35*min(1, nBaselineDays/30) + 0.30*min(1, nRecentDays/7))
   (up to the rounding of the last digits); it depends only on the two day
   counts, is non-decreasing in each count, is never below 0.35, and is 1.0
   if and only if nBaselineDays >= 30 and nRecentDays >= 7. *)
C12_SHDIConfidence ==
  call.fn = "calculateSHDI" =>
    /\ FLe(FAbs(FSub(FMul(ret.confidence, FromInt(21000)),
                     FromInt(ConfidenceTimes21000(call.nBaselineDays, call.nRecentDays)))),
           Dec(1, -2))
    /\ FGe(ret.confidence, Dec(35, -2))
    /\ ret.confidence = FromInt(1) <=> (call.nBaselineDays >= 30 /\ call.nRecentDays >= 7)
    /\ (prior # None /\ prior.call.nBaselineDays <= call.nBaselineDays
          /\ prior.call.nRecentDays <= call.nRecentDays) =>
         FLe(prior.ret.confidence, ret.confidence)

\* Two calls with the same full counts and different deviations, both
\* returning confidence 1 with different scores.
C12_Witness ==
  /\ call.fn = "calculateSHDI"
  /\ prior # None
  /\ prior.call.nBaselineDays = 30 /\ call.nBaselineDays = 30
  /\ prior.call.nRecentDays = 7 /\ call.nRecentDays = 7
  /\ prior.ret.score # ret.score
  /\ prior.ret.confidence = FromInt(1) /\ ret.confidence = FromInt(1)



(* C18: the SHDI weight table {fragmentation 0.30, deep_sleep 0.25,
   rem_sleep 0.20, efficiency 0.15, variability 0.10} that calculateSHDI
   applies to its five components sums to exactly 1.0, so that five
   components of 10 each give the score 10. *)
C18_WeightsSumToOne ==
  /\ FAdd(FAdd(FAdd(FAdd(WEIGHTS.fragmentation, WEIGHTS.deep_sleep), WEIGHTS.rem_sleep),
               WEIGHTS.efficiency),
          WEIGHTS.variability) = FromInt(1)
  /\ (call.fn = "calculateSHDI" /\ call.z_scores = TenEach.z_scores
        /\ call.trends = TenEach.trends /\ call.svi = TenEach.svi) =>
       ret.score = FromInt(10)

\* calculateSHDI applied to five components of 10 each.
C18_Witness ==
  /\ call.fn = "calculateSHDI"
  /\ call.z_scores = TenEach.z_scores /\ call.trends = TenEach.trends /\ call.svi = TenEach.svi
  /\ ret.score = FromInt(10)
  /\ ret.category = "stable"
-----------------------------------------------------------------------------
(* classifyPhenotype called directly: the winner and the confidence        *)

\* Position of a pattern in the enumeration order.
KeyIndex(k) == CHOOSE i \in 1..Len(PhenotypeKeys) : PhenotypeKeys[i] = k

\* The match scores of the call in the state.
CallScores == phenotypeScores(call.z_scores, call.trends, call.svi)

(* C13: primary_pattern is always a pattern whose match score is the maximum
   of the four match scores, and among the patterns that tie for the maximum
   the enumeration order alone fixes the winner (the reduce keeps the last of
   them), so that equal score vectors give the same pattern. *)
C13_PrimaryIsArgmax ==
  call.fn = "classifyPhenotype" =>
    \A i \in 1..Len(PhenotypeKeys) :
      /\ FGe(CallScores[ret.primary_pattern], CallScores[PhenotypeKeys[i]])
      /\ i > KeyIndex(ret.primary_pattern) =>
           FGt(CallScores[ret.primary_pattern], CallScores[PhenotypeKeys[i]])


\* The second-highest match score: the highest among the patterns other than
\* the reported one.
SecondHighest ==
  LET others == { k \in DOMAIN CallScores : k # ret.primary_pattern }
  IN CallScores[CHOOSE k \in others : \A o \in others : FGe(CallScores[k], CallScores[o])]

(* C14: the phenotype confidence is always within [0.2, 1.0]; with
   separation = (score of the reported primary_pattern) - (second-highest
   score) it is 0.2 when the top two match scores are equal and it is 1.0
   exactly when the separation is at least 2. *)
C14_PhenotypeConfidence ==
  call.fn = "classifyPhenotype" =>
    /\ FGe(ret.confidence, Dec(2, -1))
    /\ FLe(ret.confidence, FromInt(1))
    /\ FEq(CallScores[ret.primary_pattern], SecondHighest) => ret.confidence = Dec(2, -1)
    /\ ret.confidence = FromInt(1) <=>
         FGe(FSub(CallScores[ret.primary_pattern], SecondHighest), FromInt(2))

\* The patterns whose match score is the maximum of the four (none when a
\* score is NaN: NaN is not comparable).
Highest == { k \in DOMAIN CallScores : \A o \in DOMAIN CallScores : FGe(CallScores[k], CallScores[o]) }

(* C29: tie rule of classifyPhenotype: among the patterns that share the
   maximum match score, the one listed last in the order
   fragmentation_dominant, deep_sleep_reduction, rem_instability,
   efficiency_instability is returned; in particular when all four scores
   are 0 the result is efficiency_instability with confidence 0.2. *)
C29_TieRule ==
  call.fn = "classifyPhenotype" =>
    /\ Highest # { } =>
         /\ ret.primary_pattern \in Highest
         /\ \A k \in Highest : KeyIndex(k) <= KeyIndex(ret.primary_pattern)
    /\ (\A k \in DOMAIN CallScores : CallScores[k] = Zero) =>
         /\ ret.primary_pattern = "efficiency_instability"
         /\ ret.confidence = Dec(2, -1)

\* The first and the third pattern share the maximum: the third is returned.
C29_Witness ==
  /\ call.fn = "classifyPhenotype"
  /\ Highest = { "fragmentation_dominant", "rem_instability" }
  /\ ret.primary_pattern = "rem_instability"
  /\ ret.confidence = Dec(2, -1)

-----------------------------------------------------------------------------
(* computeSleepVariabilityIndex called directly                            *)

\* n nights in date order, profiles a and b in turn.
Alternating(n, a, b) == [i \in 1..n |-> Rec(i, IF i % 2 = 1 THEN a ELSE b)]

SviLengths == { 0, 1, 2, 3, MinDays } \cup { BaselineDays + x : x \in 1..MaxExtraDays }

\* Histories: one block, a first night that differs from all the others, a
\* last night that differs, and nights that alternate.
SviInputs ==
  UNION { { TwoBlock(n, k, a, b) : k \in { 1, n - 1 }, a \in Profiles, b \in Profiles } :
            n \in SviLengths }
  \cup { Alternating(n, a, b) : n \in SviLengths, a \in Profiles, b \in Profiles }

\* analyzer.computeSleepVariabilityIndex(records)
CallComputeSleepVariabilityIndex ==
  /\ call = NoCall
  /\ \E recs \in SviInputs :
       /\ call' = [fn |-> "computeSleepVariabilityIndex", records |-> recs]
       /\ ret' = computeSleepVariabilityIndex(recs)
  /\ UNCHANGED << records, result, prior >>
  /\ UNCHANGED << analyzers, cacheVars, agentVars >>

NextSvi == CallComputeSleepVariabilityIndex

SpecSvi == InitCall /\ [][NextSvi]_vars

\* Some measurement differs between two nights of recs.
Varies(recs) == \E i \in 1..Len(recs) : \E f \in Measurements : recs[i][f] # recs[1][f]

(* C15: for every sequence of at least 2 in-range records
   computeSleepVariabilityIndex returns a value in [0, 100], although only
   the upper clamp min(100, raw*200) is applied; it is computed over the
   entire history, not only the last 30 records: whenever any night of the
   history differs from the others, however old, the index is above 0. *)
C15_SviRange ==
  (call.fn = "computeSleepVariabilityIndex" /\ Len(call.records) >= 2) =>
    /\ FGe(ret, Zero)
    /\ FLe(ret, FromInt(100))
    /\ Varies(call.records) => FGt(ret, Zero)

\* A history longer than 30 nights in which only the first night differs,
\* with an index above 0.
C15_Witness ==
  /\ call.fn = "computeSleepVariabilityIndex"
  /\ Len(call.records) > BaselineDays
  /\ call.records[1].sleep_efficiency # call.records[2].sleep_efficiency
  /\ ~Varies(SubSeq(call.records, 2, Len(call.records)))
  /\ FGt(ret, Zero)
  /\ FLt(ret, FromInt(100))


-----------------------------------------------------------------------------
(* A caller making several analyze calls on two SleepAnalyzer objects      *)

\* The arrays the caller hands over: 15 nights latest first, 13 nights
\* latest first (too few), and Scenario B in date order.
CallerInputs ==
  { Reversed(TwoBlock(MinDays + 1, RecentDays, Stable, DegradedLow)),
    Reversed(TwoBlock(MinDays - 1, RecentDays, Stable, DegradedLow)),
    ScenarioB([i \in 1..7 |-> DegradedHigh]) }

InitCaller ==
  /\ records = << >>
  /\ result = None
  /\ prior = { }
  /\ call = NoCall
  /\ ret = None
  /\ Untouched

\* analyzers[i].analyze(recs); prior collects the calls made before.
AnalyzeOn ==
  \E i \in Instances, recs \in CallerInputs :
    LET returns(c) ==
          /\ records' = c.records
          /\ result' = c.returned
          /\ analyzers' = [analyzers EXCEPT ![i] = c.this]
    IN /\ returns(analyzeCall(analyzers[i], recs))
       /\ call' = [fn |-> "analyze", instance |-> i, records |-> recs]
       /\ prior' = IF call = NoCall THEN prior
                   ELSE prior \cup { [instance |-> call.instance, records |-> call.records,
                                      returned |-> result] }
       /\ UNCHANGED << ret, cacheVars, agentVars >>

NextCaller == AnalyzeOn

SpecCaller == InitCaller /\ [][NextCaller]_vars

(* C16: analyze never mutates its input: after analyze(records) returns or
   throws, the caller's array has the same length, the same element order and
   the same field values in every record as when it was handed over. *)
C16_InputNotMutated ==
  call.fn = "analyze" =>
    /\ Len(records) = Len(call.records)
    /\ \A i \in 1..Len(records) : records[i] = call.records[i]

\* An array that is not in date order analysed, and a too short one thrown on.
C16_Witness ==
  /\ call.fn = "analyze"
  /\ Ok(result)
  /\ call.records[1].date > call.records[2].date
  /\ \E e \in prior : e.returned = InsufficientData /\ e.records[1].date > e.records[2].date

(* C17: analyze is idempotent and stateless: two calls with the same input,
   on the same or on different SleepAnalyzer objects and in any interleaving
   with calls on other inputs, return identical results, and no call leaves
   anything in an object's fields for another call to read. *)
C17_IdempotentStateless ==
  /\ \A i \in Instances : analyzers[i] = NoFields
  /\ call.fn = "analyze" =>
       /\ \A e \in prior : e.records = call.records => e.returned = result
       /\ \A e1, e2 \in prior : e1.records = e2.records => e1.returned = e2.returned

\* The same input analysed before on the same object and on the other one,
\* with a call on another input on the same object in between.
C17_Witness ==
  /\ call.fn = "analyze"
  /\ Ok(result)
  /\ \E e1, e2, e3 \in prior :
       /\ e1.records = call.records /\ e1.instance = call.instance
       /\ e2.records = call.records /\ e2.instance # call.instance
       /\ e3.records # call.records /\ e3.instance = call.instance /\ Ok(e3.returned)

-----------------------------------------------------------------------------
(* validateSleepData: the check on uploaded records before the analysis    *)

\* A JavaScript value held by a field of an uploaded record: a number (NaN
\* included), a text that is not a number, null, undefined, or a Date whose
\* time value is n (NaN for an Invalid Date).
JSNumber(n) == [js |-> "number", n |-> n]
JSText == [js |-> "string", n |-> NaN]
JSNull == [js |-> "null", n |-> Zero]
JSUndefined == [js |-> "undefined", n |-> NaN]
JSDate(n) == [js |-> "Date", n |-> n]

\* Number(value): null is 0, undefined and a text that is not a number are NaN.
Number(v) ==
  IF v.js \in { "number", "Date" } THEN v.n ELSE IF v.js = "null" THEN Zero ELSE NaN

\* r.date instanceof Date ? r.date : new Date(r.date): the time value of the date.
ToTime(v) ==
  IF v.js \in { "number", "Date" } THEN v.n ELSE IF v.js = "null" THEN Zero ELSE NaN

\* The fields of a SleepRecord.
SleepRecordFields ==
  { "date", "total_sleep_min", "sleep_efficiency", "deep_sleep_min", "rem_sleep_min",
    "awakenings" }

requiredFields ==
  << "date", "sleep_efficiency", "deep_sleep_min", "rem_sleep_min", "awakenings" >>

NoFault == [text |-> "", fields |-> << >>, value |-> Zero]

\* What the loop body finds in one record: the required fields it lacks, or
\* the first of the four range checks that it fails, or nothing.
faultOf(record) ==
  LET missingFields == SelectSeq(requiredFields, LAMBDA f : f \notin DOMAIN record)
      outside(x, limit) == FLt(x, Zero) \/ FGt(x, FromInt(limit))
      invalid(text, x) == [text |-> text, fields |-> << >>, value |-> x]
  IN IF missingFields # << >>
       THEN [text |-> "Missing required fields", fields |-> missingFields, value |-> Zero]
     ELSE IF outside(Number(record.sleep_efficiency), 100)
       THEN invalid("Invalid sleep_efficiency", Number(record.sleep_efficiency))
     ELSE IF outside(Number(record.deep_sleep_min), 360)
       THEN invalid("Invalid deep_sleep_min", Number(record.deep_sleep_min))
     ELSE IF outside(Number(record.rem_sleep_min), 360)
       THEN invalid("Invalid rem_sleep_min", Number(record.rem_sleep_min))
     ELSE IF outside(Number(record.awakenings), 50)
       THEN invalid("Invalid awakenings", Number(record.awakenings))
     ELSE NoFault

\* Variant of validateSleepData: every upload found valid.
validateSleepDataAlwaysValid(recs) ==
  [valid |-> TRUE, num_records |-> Len(recs), date_range |-> JSUndefined]

\* validateSleepData(records). The index in an error message counts from 0.
validateSleepData(recs) ==
  LET n == Len(recs)
      faulty == { i \in 1..n : faultOf(recs[i]) # NoFault }
      dates == { ToTime(recs[i].date) : i \in { j \in 1..n : ~IsNaN(ToTime(recs[j].date)) } }
      least(ts) == CHOOSE t \in ts : \A u \in ts : FLe(t, u)
      greatest(ts) == CHOOSE t \in ts : \A u \in ts : FGe(t, u)
  IN IF n < 14
       THEN [valid |-> FALSE,
             error_message |-> [text |-> "Insufficient data", days |-> n],
             num_records |-> n]
     ELSE IF faulty # { }
       THEN LET i == CHOOSE j \in faulty : \A k \in faulty : j <= k
            IN [valid |-> FALSE,
                error_message |-> [record |-> i - 1, fault |-> faultOf(recs[i])],
                num_records |-> n]
     ELSE [valid |-> TRUE,
           num_records |-> n,
           date_range |-> IF dates # { }
                            THEN [start |-> least(dates), end |-> greatest(dates)]
                            ELSE JSUndefined]

\* An uploaded record with every field, inside every range.
Uploaded(d) ==
  [date |-> JSDate(FromInt(d)), total_sleep_min |-> JSNumber(FromInt(490)),
   sleep_efficiency |-> JSNumber(FromInt(94)), deep_sleep_min |-> JSNumber(FromInt(120)),
   rem_sleep_min |-> JSNumber(FromInt(120)), awakenings |-> JSNumber(FromInt(1))]

Without(r, f) == [g \in DOMAIN r \ { f } |-> r[g]]
With(r, f, v) == [r EXCEPT ![f] = v]

\* The closed range of each measurement in SleepRecordSchema.
RangeMax ==
  [total_sleep_min |-> 720, sleep_efficiency |-> 100, deep_sleep_min |-> 360,
   rem_sleep_min |-> 360, awakenings |-> 50]

\* Values one field of one record takes: both ends of its range, one step
\* outside either end, and the values that are no numbers.
FieldValues(f) ==
  IF f = "date"
    THEN { JSDate(NaN), JSText, JSNull, JSUndefined }
    ELSE { JSNumber(FromInt(x)) : x \in { -1, 0, RangeMax[f], RangeMax[f] + 1 } }
         \cup { JSNumber(NaN), JSText, JSNull, JSUndefined }

UploadLengths == { 13, 14, 15 }

AllUploaded(n) == [i \in 1..n |-> Uploaded(i)]

\* Uploads: every record well formed, or one record, the first or the last,
\* with one field absent or holding one of the values above.
ValidateInputs ==
  { AllUploaded(n) : n \in UploadLengths }
  \cup UNION { { [AllUploaded(n) EXCEPT ![i] = Without(Uploaded(i), f)]
                   : i \in { 1, n }, f \in SleepRecordFields } : n \in UploadLengths }
  \cup UNION { UNION { { [AllUploaded(n) EXCEPT ![i] = With(Uploaded(i), f, v)]
                           : i \in { 1, n }, v \in FieldValues(f) }
                       : f \in SleepRecordFields } : n \in UploadLengths }

\* validateSleepData(sleepRecords)
CallValidateSleepData ==
  /\ call = NoCall
  /\ \E recs \in ValidateInputs :
       /\ call' = [fn |-> "validateSleepData", records |-> recs]
       /\ ret' = validateSleepData(recs)
  /\ UNCHANGED << records, result, prior >>
  /\ UNCHANGED << analyzers, cacheVars, agentVars >>

NextValidate == CallValidateSleepData

SpecValidate == InitCall /\ [][NextValidate]_vars

\* A record as SleepRecordSchema describes it: every field present, the date
\* a valid date, every measurement a number inside its closed range.
WellFormed(r) ==
  /\ SleepRecordFields \subseteq DOMAIN r
  /\ r.date.js = "Date" /\ ~IsNaN(r.date.n)
  /\ \A f \in DOMAIN RangeMax :
       /\ r[f].js = "number"
       /\ FGe(r[f].n, Zero) /\ FLe(r[f].n, FromInt(RangeMax[f]))

(* C19: validateSleepData returns valid = true only if there are at least
   14 records and every record has every SleepRecord field present and
   inside its closed range (date valid, total_sleep_min 0-720,
   sleep_efficiency 0-100, deep_sleep_min 0-360, rem_sleep_min 0-360,
   awakenings 0-50); a record with a missing, non-numeric or out-of-range
   value in any of these fields makes it return valid = false with an error
   message. *)
C19_ValidOnlyIfWellFormed ==
  call.fn = "validateSleepData" =>
    /\ ret.valid =>
         /\ Len(call.records) >= 14
         /\ \A i \in 1..Len(call.records) : WellFormed(call.records[i])
    /\ (\E i \in 1..Len(call.records) : ~WellFormed(call.records[i])) =>
         /\ ~ret.valid
         /\ "error_message" \in DOMAIN ret

-----------------------------------------------------------------------------
(* lib/cache: getAnalysis and setAnalysis over Vercel KV and the in-memory  *)
(* fallback                                                                 *)

CACHE_TTL == 86400

\* The @vercel/kv client once loaded, with the entries of the remote store:
\* each holds the stored value and the seconds it has left to live.
Client(store) == [status |-> "client", store |-> store]

\* An object with one more property, and with one property less.
Put(obj, id, v) == [k \in DOMAIN obj \cup { id } |-> IF k = id THEN v ELSE obj[k]]
Delete(obj, ids) == [k \in DOMAIN obj \ ids |-> obj[k]]

\* What comes back of a value stored as JSON: a NaN or an infinite number
\* is written as null.
FromJSON(v) ==
  [v EXCEPT !.analysis.shdi.score =
     IF IsNaN(@) \/ IsInf(@) THEN Null ELSE @]

\* global.analysisCache?.[id] || null
memoryGet(id) == IF id \in DOMAIN analysisCache THEN analysisCache[id] ELSE Null

\* kv.get(key)
kvGet(id) == IF id \in DOMAIN kv.store THEN kv.store[id].value ELSE Null

\* How a request to the KV store ends: answered, rejected before the store
\* has acted, or failed after the store has acted.
KVOutcomes == { "ok", "rejected", "reply lost" }

\* getAnalysis(id), the KV request ending as in outcome.
getAnalysis(id, outcome) ==
  IF kv # Null /\ isKVConfigured
    THEN IF outcome = "ok" THEN kvGet(id) ELSE memoryGet(id)
    ELSE memoryGet(id)

\* setAnalysis(id, value), the KV request ending as in outcome: the module
\* state it leaves.
setAnalysis(id, value, outcome) ==
  IF kv # Null /\ isKVConfigured
    THEN [kv |-> IF outcome = "rejected" THEN kv
                 ELSE Client(Put(kv.store, id, [value |-> FromJSON(value), ex |-> CACHE_TTL])),
          analysisCache |-> IF outcome = "ok" THEN analysisCache
                            ELSE Put(analysisCache, id, value)]
    ELSE [kv |-> kv, analysisCache |-> Put(analysisCache, id, value)]

\* Analysis ids and cached entries: {analysis, timestamp}.
Ids == { "id1", "id2" }
Entry(score, timestamp) == [analysis |-> [shdi |-> [score |-> score]], timestamp |-> timestamp]
Entries == { Entry(FromInt(10), "t1"), Entry(FromInt(40), "t2"), Entry(NaN, "t3") }

\* The longest time followed after a setAnalysis, in half lifetimes.
MaxHalfLives == 3

\* Module load: KV configured or not, and the client loaded or not.
InitCache ==
  /\ records = << >>
  /\ result = None
  /\ prior = None
  /\ call = NoCall
  /\ ret = None
  /\ analyzers = [i \in Instances |-> NoFields]
  /\ isKVConfigured \in BOOLEAN
  /\ kv \in IF isKVConfigured THEN { Null, Client(NoEntries) } ELSE { Null }
  /\ analysisCache = NoEntries
  /\ lastSet = NoEntries
  /\ orchestrator = Null
  /\ request = Null

\* await setAnalysis(id, value); lastSet keeps the value and its age.
SetAnalysis ==
  \E id \in Ids, value \in Entries, outcome \in KVOutcomes :
    LET after == setAnalysis(id, value, outcome) IN
    /\ kv' = after.kv
    /\ analysisCache' = after.analysisCache
    /\ lastSet' = Put(lastSet, id, [value |-> value, age |-> 0])
    /\ call' = [fn |-> "setAnalysis", id |-> id, value |-> value, outcome |-> outcome]
    /\ ret' = [status |-> "resolved"]
    /\ UNCHANGED << records, result, prior, analyzers, isKVConfigured, agentVars >>

\* await getAnalysis(id)
GetAnalysis ==
  \E id \in Ids, outcome \in KVOutcomes :
    /\ call' = [fn |-> "getAnalysis", id |-> id, outcome |-> outcome]
    /\ ret' = [status |-> "returned", value |-> getAnalysis(id, outcome)]
    /\ UNCHANGED << records, result, prior, analyzers, cacheVars, agentVars >>

\* Half of CACHE_TTL goes by: the KV store drops the entries whose time is up.
Elapse ==
  LET dt == CACHE_TTL \div 2 IN
  /\ lastSet # NoEntries
  /\ \A id \in DOMAIN lastSet : lastSet[id].age < MaxHalfLives * dt
  /\ lastSet' = [id \in DOMAIN lastSet |-> [lastSet[id] EXCEPT !.age = @ + dt]]
  /\ kv' = IF kv = Null THEN Null
           ELSE LET gone == { id \in DOMAIN kv.store : kv.store[id].ex <= dt }
                    kept == Delete(kv.store, gone)
                IN Client([id \in DOMAIN kept |-> [kept[id] EXCEPT !.ex = @ - dt]])
  /\ call' = NoCall
  /\ ret' = None
  /\ UNCHANGED << records, result, prior, analyzers, analysisCache, isKVConfigured, agentVars >>

NextCache == SetAnalysis \/ GetAnalysis \/ Elapse

SpecCache == InitCache /\ [][NextCache]_vars

(* C20: cache round trip: for any sequence of setAnalysis and getAnalysis
   calls and any pattern of KV-store failures, once setAnalysis(id, v) has
   resolved, a later getAnalysis(id) with no setAnalysis for that id in
   between, and before the 24 h lifetime is over, returns v and never
   null. *)
C20_CacheRoundTrip ==
  (/\ call.fn = "getAnalysis"
   /\ call.id \in DOMAIN lastSet
   /\ lastSet[call.id].age < CACHE_TTL) =>
    /\ ret.value # Null
    /\ ret.value = lastSet[call.id].value

-----------------------------------------------------------------------------
(* SOMNIOrchestrator.orchestrate: the loop of model calls                    *)

maxTurns == 15

ExceededMaximumTurns == "Report generation exceeded maximum turns"

\* What one anthropic.messages.create call comes to: a response with one of
\* the stop reasons, or a rejected promise (the API is down or refuses).
StopReasons == { "tool_use", "end_turn", "max_tokens" }
ModelCallOutcomes == StopReasons \cup { "rejected" }

\* A SOMNIOrchestrator as constructed, orchestrate not called yet.
\* calls and seen are history: the model calls made and the stop reasons met.
NewOrchestrator ==
  [pc |-> "constructed", conversationHistory |-> << >>, anthropicTurns |-> 0,
   currentTurn |-> 0, finalReport |-> Null, thrown |-> Null, calls |-> 0, seen |-> { }]

\* Variant of the loop body's counting: only a tool_use response is counted.
turnAfterToolUseOnly(stop_reason, currentTurn) ==
  IF stop_reason = "tool_use" THEN currentTurn + 1 ELSE currentTurn

\* currentTurn after the loop body has handled a response.
turnAfter(stop_reason, currentTurn) ==
  IF stop_reason = "tool_use" THEN currentTurn + 1
  ELSE IF stop_reason = "end_turn" THEN currentTurn
  ELSE currentTurn + 1

\* The orchestrate call after one model call has come to outcome: one pass of
\* the loop body and, when the loop is left, the code after it.
afterModelCall(o, outcome) ==
  IF outcome = "rejected"
    THEN [o EXCEPT !.pc = "threw", !.thrown = "API error", !.calls = @ + 1]
  ELSE
    LET turn == turnAfter(outcome, o.currentTurn)
        history == IF outcome = "tool_use"
                     THEN o.conversationHistory \o << "assistant", "user" >>
                     ELSE o.conversationHistory
        report == IF outcome = "end_turn" THEN [status |-> "report"] ELSE o.finalReport
        left == outcome = "end_turn" \/ ~(turn < maxTurns)
    IN [pc |-> IF ~left THEN "loop" ELSE IF report = Null THEN "threw" ELSE "returned",
        conversationHistory |-> history,
        anthropicTurns |-> o.anthropicTurns + 1,
        currentTurn |-> turn,
        finalReport |-> report,
        thrown |-> IF left /\ report = Null THEN ExceededMaximumTurns ELSE Null,
        calls |-> o.calls + 1,
        seen |-> o.seen \cup { outcome }]

InitOrchestrate ==
  /\ records = << >>
  /\ result = None
  /\ prior = None
  /\ call = NoCall
  /\ ret = None
  /\ analyzers = [i \in Instances |-> NoFields]
  /\ kv = Null
  /\ analysisCache = NoEntries
  /\ isKVConfigured = FALSE
  /\ lastSet = NoEntries
  /\ orchestrator = NewOrchestrator
  /\ request = Null

\* orchestrator.orchestrate(sleepAnalysis) up to its first model call.
Orchestrate ==
  /\ orchestrator.pc = "constructed"
  /\ orchestrator' = [orchestrator EXCEPT !.pc = "loop",
                                          !.conversationHistory = @ \o << "user" >>]
  /\ UNCHANGED << records, result, prior, call, ret, analyzers, cacheVars, request >>

\* await this.anthropic.messages.create(...) and what the loop does with it.
ModelCall ==
  /\ orchestrator.pc = "loop"
  /\ orchestrator.currentTurn < maxTurns
  /\ \E outcome \in ModelCallOutcomes :
       orchestrator' = afterModelCall(orchestrator, outcome)
  /\ UNCHANGED << records, result, prior, call, ret, analyzers, cacheVars, request >>

NextOrchestrate == Orchestrate \/ ModelCall

SpecOrchestrate == InitOrchestrate /\ [][NextOrchestrate]_vars

Finished(o) == o.pc \in { "returned", "threw" }

(* C21 as stated: each orchestrate call ends after at most 15 model calls;
   it returns a report if and only if some model response has stop_reason
   end_turn, and otherwise throws 'Report generation exceeded maximum
   turns'; every response with another stop reason advances the turn
   counter by exactly one. *)
C21_ReportIffEndTurnElseExceeded ==
  /\ orchestrator.calls <= maxTurns
  /\ orchestrator.pc = "loop" =>
       orchestrator.currentTurn = orchestrator.calls /\ orchestrator.currentTurn < maxTurns
  /\ Finished(orchestrator) =>
       /\ orchestrator.pc = "returned" <=> "end_turn" \in orchestrator.seen
       /\ "end_turn" \notin orchestrator.seen =>
            orchestrator.pc = "threw" /\ orchestrator.thrown = ExceededMaximumTurns

(* C21 amended: each orchestrate call ends after at most 15 model calls;
   it returns a report if and only if some model response has stop_reason
   end_turn; when all 15 responses have another stop reason it throws
   'Report generation exceeded maximum turns', and when a model call is
   rejected it throws that call's error; every response with another stop
   reason advances the turn counter by exactly one. *)
C21_BoundedModelCalls ==
  /\ orchestrator.calls <= maxTurns
  /\ orchestrator.pc = "loop" =>
       /\ orchestrator.currentTurn = orchestrator.calls
       /\ orchestrator.currentTurn = orchestrator.anthropicTurns
       /\ orchestrator.currentTurn < maxTurns
       /\ "end_turn" \notin orchestrator.seen
  /\ Finished(orchestrator) =>
       /\ orchestrator.pc = "returned" <=> "end_turn" \in orchestrator.seen
       /\ orchestrator.pc = "returned" <=> orchestrator.finalReport # Null
       /\ orchestrator.pc = "threw" =>
            IF orchestrator.anthropicTurns = orchestrator.calls
              THEN /\ orchestrator.thrown = ExceededMaximumTurns
                   /\ orchestrator.currentTurn = maxTurns
                   /\ orchestrator.calls = maxTurns
              ELSE orchestrator.thrown = "API error"

\* Fifteen responses, none of them end_turn, and the call has thrown.
C21_Witness ==
  /\ orchestrator.pc = "threw"
  /\ orchestrator.thrown = ExceededMaximumTurns
  /\ orchestrator.calls = maxTurns
  /\ orchestrator.seen = { "tool_use", "max_tokens" }

-----------------------------------------------------------------------------
(* SOMNIOrchestrator.queryPubMed: two requests to the PubMed E-utilities     *)

\* A JSON array and a JSON text.
JSArray(items) == [js |-> "array", items |-> items]
JSString == [js |-> "string", items |-> << >>]

\* Entries of the esummary result map: a full summary, a summary with no
\* field at all, one whose pubdate starts with no year, one whose authors
\* are a text instead of a list.
FullArticle ==
  [title |-> "T", authors |-> JSArray(<< "A", "B" >>), fulljournalname |-> "J",
   source |-> "S", pubdate |-> 2021, abstract |-> "X", elocationid |-> "doi"]
BareArticle == NoEntries
UndatedArticle == [title |-> "T", source |-> "S", pubdate |-> 0]
MalformedArticle == [title |-> "T", authors |-> JSString]
Articles == { FullArticle, BareArticle, UndatedArticle, MalformedArticle }

\* obj.field || fallback, for an object that may lack the field.
OrElse(obj, field, fallback) == IF field \in DOMAIN obj THEN obj[field] ELSE fallback

\* One PubMedResult. pubdate holds what parseInt makes of the first word of
\* the date, 0 standing for NaN; an author list is joined by its names.
toPubMedResult(id, article) ==
  [pmid |-> id,
   title |-> OrElse(article, "title", "No title available"),
   authors |-> IF "authors" \in DOMAIN article /\ article.authors.items # << >>
                 THEN article.authors.items ELSE << "Authors not available" >>,
   journal |-> OrElse(article, "fulljournalname",
                      OrElse(article, "source", "Journal not available")),
   year |-> OrElse(article, "pubdate", 0),
   abstract |-> OrElse(article, "abstract", "Abstract not available"),
   doi |-> OrElse(article, "elocationid", "undefined")]

\* article.authors?.map(...) throws a TypeError when authors is no array.
Throws(article) == "authors" \in DOMAIN article /\ article.authors.js # "array"

\* Variant of the lookup: an id without entry is mapped like any other
\* (reading article.title of undefined throws).
lookupNoSkip(resultMap, ids) ==
  IF \E i \in 1..Len(ids) :
       ids[i] \notin DOMAIN resultMap \/ resultMap[ids[i]] = Null
          \/ Throws(resultMap[ids[i]])
    THEN [status |-> "threw"]
    ELSE [status |-> "ok",
          value |-> [i \in 1..Len(ids) |-> toPubMedResult(ids[i], resultMap[ids[i]])]]

\* ids.map(...).filter(r => r !== null): ids without entry in the map (or
\* with a null entry) are skipped.
lookup(resultMap, ids) ==
  LET present == SelectSeq(ids, LAMBDA id : id \in DOMAIN resultMap /\ resultMap[id] # Null)
  IN IF \E i \in 1..Len(present) : Throws(resultMap[present[i]])
       THEN [status |-> "threw"]
       ELSE [status |-> "ok",
             value |-> [i \in 1..Len(present) |->
                          toPubMedResult(present[i], resultMap[present[i]])]]

\* queryPubMed(input), given what the esearch and the esummary request come
\* to: [fetch |-> "rejected"] (the fetch or reading the body as JSON fails)
\* or [fetch |-> "ok", data |-> the JSON value]. The input is destructured
\* before the try block; everything after it is inside.
queryPubMed(input, search, details) ==
  LET caught == << >>
      idlist == IF "esearchresult" \in DOMAIN search.data
                   /\ "idlist" \in DOMAIN search.data.esearchresult
                  THEN search.data.esearchresult.idlist ELSE JSArray(<< >>)
      returned(list) == [status |-> "returned", value |-> list]
  IN IF input = Null THEN [status |-> "threw", error |-> "TypeError"]
     ELSE IF search.fetch = "rejected" \/ search.data = Null THEN returned(caught)
     ELSE IF idlist.js = "array" /\ idlist.items = << >> THEN returned(<< >>)
     ELSE IF idlist.js # "array" THEN returned(caught)
     ELSE IF details.fetch = "rejected" THEN returned(caught)
     ELSE IF details.data = Null \/ "result" \notin DOMAIN details.data THEN returned(<< >>)
     ELSE IF details.data.result = Null \/ details.data.result = JSString THEN returned(<< >>)
     ELSE LET found == lookup(details.data.result, idlist.items)
          IN IF found.status = "threw" THEN returned(caught) ELSE returned(found.value)

Rejected == [fetch |-> "rejected"]
Fetched(data) == [fetch |-> "ok", data |-> data]

PubMedIds == { "101", "102", "103" }
IdLists ==
  { << >> } \cup { << a >> : a \in PubMedIds }
  \cup { << a, b >> : a \in PubMedIds, b \in PubMedIds }

\* What the esearch request comes to.
SearchOutcomes ==
  { Rejected, Fetched(Null), Fetched(NoEntries), Fetched([esearchresult |-> NoEntries]),
    Fetched([esearchresult |-> [idlist |-> JSString]]) }
  \cup { Fetched([esearchresult |-> [idlist |-> JSArray(ids)]]) : ids \in IdLists }

\* Result maps: no entry, an entry for 101, for 102, or for both.
ResultMaps ==
  { NoEntries }
  \cup { [id \in { a } |-> x] : a \in { "101", "102" }, x \in Articles \cup { Null } }
  \cup { [id \in { "101", "102" } |-> IF id = "101" THEN x ELSE FullArticle] :
           x \in Articles }

\* What the esummary request comes to.
DetailsOutcomes ==
  { Rejected, Fetched(Null), Fetched(NoEntries), Fetched([result |-> Null]),
    Fetched([result |-> JSString]) }
  \cup { Fetched([result |-> m]) : m \in ResultMaps }

\* tool.input of a tool_use block: an object, with or without its fields.
PubMedInputs == { [query |-> "sleep"], [query |-> "sleep", max_results |-> 3], NoEntries }

\* this.queryPubMed(tool.input)
CallQueryPubMed ==
  /\ call = NoCall
  /\ \E input \in PubMedInputs, search \in SearchOutcomes, details \in DetailsOutcomes :
       /\ call' = [fn |-> "queryPubMed", input |-> input, search |-> search,
                   details |-> details]
       /\ ret' = queryPubMed(input, search, details)
  /\ UNCHANGED << records, result, prior >>
  /\ UNCHANGED << analyzers, cacheVars, agentVars >>

NextPubMed == CallQueryPubMed

SpecPubMed == InitCall /\ [][NextPubMed]_vars

\* The id list of the search response of the call, << >> when it has none.
CallIds ==
  IF call.search.fetch = "ok" /\ call.search.data # Null
       /\ "esearchresult" \in DOMAIN call.search.data
       /\ "idlist" \in DOMAIN call.search.data.esearchresult
    THEN call.search.data.esearchresult.idlist.items ELSE << >>

\* The result map of the summary response of the call, empty when it has none.
CallResultMap ==
  IF call.details.fetch = "ok" /\ call.details.data # Null
       /\ "result" \in DOMAIN call.details.data
       /\ call.details.data.result \notin { Null, JSString }
    THEN call.details.data.result ELSE NoEntries

(* C22: queryPubMed is null-safe and never throws: if the search response
   has no esearchresult or idlist, if the summary response has no result
   object, or if a fetch fails, it returns an empty list; ids that have no
   entry in the result map are skipped, so the returned list holds only
   articles for ids present in the map, in the order of the id list, and
   is never longer than the id list. *)
C22_QueryPubMedNullSafe ==
  call.fn = "queryPubMed" =>
    /\ ret.status = "returned"
    /\ (CallIds = << >> \/ CallResultMap = NoEntries \/ call.details.fetch = "rejected") =>
         ret.value = << >>
    /\ Len(ret.value) <= Len(CallIds)
    /\ \A i \in 1..Len(ret.value) : ret.value[i].pmid \in DOMAIN CallResultMap
    /\ LET present == SelectSeq(CallIds, LAMBDA id : id \in DOMAIN CallResultMap
                                                      /\ CallResultMap[id] # Null)
       IN (\A i \in 1..Len(present) : ~Throws(CallResultMap[present[i]])) =>
            /\ Len(ret.value) = Len(present)
            /\ \A i \in 1..Len(present) : ret.value[i].pmid = present[i]

\* Two ids found by the search, only the second of them in the result map.
C22_Witness ==
  /\ call.fn = "queryPubMed"
  /\ CallIds = << "101", "102" >>
  /\ DOMAIN CallResultMap = { "102" }
  /\ Len(ret.value) = 1
  /\ ret.value[1].pmid = "102"

-----------------------------------------------------------------------------
(* calculateSHDI called twice, the second time with one argument changed    *)

ZAwakeningsValues == { FromInt(-2), Zero, FromInt(1), FromInt(3), FromInt(40) }
ZDeepValues == { FromInt(-3), FromInt(-1), Zero, FromInt(2) }
ZRemValues == { Dec(-15, -1), Zero, Dec(15, -1), NaN }
ZEfficiencyValues == { FromInt(-3), Zero }
EfficiencySlopeValues == { Dec(-2, -1), Dec(-1, -1), Zero, Dec(1, -1) }
SviPairValues == { Zero, FromInt(50) }

\* The arguments of calculateSHDI: <<z_awakenings, z_deep_sleep, z_rem_sleep,
\* z_efficiency, efficiency_slope, svi>>.
SHDIArguments ==
  ZAwakeningsValues \X ZDeepValues \X ZRemValues \X ZEfficiencyValues
    \X EfficiencySlopeValues \X SviPairValues

\* Argument lists that differ from a in one place exactly.
OneChanged(a) == { b \in SHDIArguments : Cardinality({ i \in 1..6 : a[i] # b[i] }) = 1 }

calculateSHDIOn(a) ==
  calculateSHDI([awakenings |-> a[1], deep_sleep |-> a[2], rem_sleep |-> a[3],
                 efficiency |-> a[4]],
                TrendsOf(a[5]), a[6], BaselineDays, RecentDays)

\* analyzer.calculateSHDI(...) on one list of arguments
CallCalculateSHDIOnce ==
  /\ call = NoCall
  /\ \E a \in SHDIArguments :
       /\ call' = [fn |-> "calculateSHDI", args |-> a]
       /\ ret' = calculateSHDIOn(a)
  /\ UNCHANGED << records, result, prior >>
  /\ UNCHANGED << analyzers, cacheVars, agentVars >>

\* analyzer.calculateSHDI(...) again with one argument changed; prior keeps
\* the first call and what it returned.
CallCalculateSHDIAgain ==
  /\ call # NoCall
  /\ prior = None
  /\ \E b \in OneChanged(call.args) :
       /\ call' = [fn |-> "calculateSHDI", args |-> b]
       /\ ret' = calculateSHDIOn(b)
  /\ prior' = [status |-> "called", call |-> call, ret |-> ret]
  /\ UNCHANGED << records, result >>
  /\ UNCHANGED << analyzers, cacheVars, agentVars >>

NextSHDIPair == CallCalculateSHDIOnce \/ CallCalculateSHDIAgain

SpecSHDIPair == InitCall /\ [][NextSHDIPair]_vars

\* x is at most y, or both scores are NaN (a NaN among the other arguments).
AtMost(x, y) == FLe(x, y) \/ (IsNaN(x) /\ IsNaN(y))

\* The argument changed between the two calls.
Changed == CHOOSE i \in 1..6 : prior.call.args[i] # call.args[i]

(* C23: one-sided SHDI components: the score of calculateSHDI is
   non-decreasing in z_awakenings, non-increasing in z_deep_sleep and in
   efficiency_slope, and even in z_rem_sleep; it is unchanged when a
   z_awakenings <= 0 is replaced by 0, when a z_deep_sleep >= 0 is replaced
   by 0, or when an efficiency_slope >= 0 is replaced by 0, and it does not
   depend on z_scores.efficiency at all. *)
C23_OneSidedComponents ==
  prior # None =>
    LET before == prior.call.args[Changed]
        after == call.args[Changed]
        was == prior.ret.score
        is == ret.score
    IN /\ (Changed = 1 /\ FLe(before, after)) =>
            /\ AtMost(was, is)
            /\ FLe(before, Zero) /\ after = Zero => is = was
       /\ (Changed \in { 2, 5 } /\ FLe(before, after)) =>
            /\ AtMost(is, was)
            /\ before = Zero /\ FGe(after, Zero) => is = was
       /\ (Changed = 3 /\ after = FNeg(before)) => is = was
       /\ Changed = 4 => ret = prior.ret

\* The four cases met: a negative z_awakenings replaced by 0 under a
\* positive score.
C23_Witness ==
  /\ prior # None
  /\ Changed = 1
  /\ prior.call.args[1] = FromInt(-2) /\ call.args[1] = Zero
  /\ ret.score = prior.ret.score
  /\ FGt(ret.score, Zero)

-----------------------------------------------------------------------------
(* POST /api/analyze, the TypeScript pipeline (PYTHON_API_URL not set)       *)

\* The uploaded file: none, or its extension.
RouteFiles == { "none", ".xml", ".csv", ".txt" }

\* A parsed SleepRecord as validateSleepData reads it.
AsUploaded(r) ==
  [date |-> JSDate(FromInt(r.date)),
   total_sleep_min |-> JSNumber(FromInt(r.total_sleep_min)),
   sleep_efficiency |-> JSNumber(FromInt(r.sleep_efficiency)),
   deep_sleep_min |-> JSNumber(FromInt(r.deep_sleep_min)),
   rem_sleep_min |-> JSNumber(FromInt(r.rem_sleep_min)),
   awakenings |-> JSNumber(FromInt(r.awakenings))]

\* A night whose efficiency column reads 101.
TooEfficient == << 490, 101, 120, 120, 1 >>

\* What the parser makes of the file: it throws, or it returns records (none
\* when no row has a date).
ParseOutcomes ==
  { [status |-> "threw"] }
  \cup { [status |-> "ok", records |-> recs] :
           recs \in { << >> }
                    \cup { TwoBlock(n, RecentDays, a, b) :
                             n \in { 13, 14, 15 }, a \in { Stable, DegradedLow },
                             b \in { Stable, DegradedLow } }
                    \cup { TwoBlock(n, 1, Stable, TooEfficient) : n \in { 13, 14 } } }

Respond(status, body) == [status |-> status, body |-> body]

\* The handler from the file content to its next await: parse, validate,
\* analyze, and the call of setAnalysis; or the response it ends with.
pipeline(req, parsed, id) ==
  IF req.file = ".txt"
    THEN [req EXCEPT !.pc = "responded",
                     !.response = Respond(400, "Unsupported file format")]
  ELSE IF parsed.status = "threw"
    THEN [req EXCEPT !.pc = "responded", !.steps = << "parse", "respond" >>,
                     !.response = Respond(500, "Analysis failed")]
  ELSE
    LET validation == validateSleepData([i \in 1..Len(parsed.records) |->
                                           AsUploaded(parsed.records[i])])
        analysisResult == analyze(parsed.records)
    IN IF ~validation.valid
         THEN [req EXCEPT !.pc = "responded", !.sleepRecords = parsed.records,
                          !.validation = validation,
                          !.steps = << "parse", "validateSleepData", "respond" >>,
                          !.response = Respond(422, validation.error_message)]
       ELSE IF ~Ok(analysisResult)
         THEN [req EXCEPT !.pc = "responded", !.sleepRecords = parsed.records,
                          !.validation = validation,
                          !.steps = << "parse", "validateSleepData", "analyze", "respond" >>,
                          !.response = Respond(500, "Analysis failed")]
       ELSE [req EXCEPT !.pc = "caching", !.sleepRecords = parsed.records,
                        !.validation = validation,
                        !.analysisResult = analysisResult,
                        !.analysisId = id,
                        !.steps = << "parse", "validateSleepData", "analyze", "setAnalysis" >>]

InitRoute ==
  /\ records = << >>
  /\ result = None
  /\ prior = None
  /\ call = NoCall
  /\ ret = None
  /\ analyzers = [i \in Instances |-> NoFields]
  /\ isKVConfigured \in BOOLEAN
  /\ kv \in IF isKVConfigured THEN { Null, Client(NoEntries) } ELSE { Null }
  /\ analysisCache = NoEntries
  /\ lastSet = NoEntries
  /\ orchestrator = Null
  /\ request = Null

\* POST up to the end of await req.formData(): no file is answered with 400.
Post ==
  /\ request = Null
  /\ \E file \in RouteFiles :
       request' =
         [pc |-> IF file = "none" THEN "responded" ELSE "reading",
          file |-> file, sleepRecords |-> Null, validation |-> Null,
          analysisResult |-> Null, analysisId |-> Null, steps |-> << >>,
          response |-> IF file = "none" THEN Respond(400, "No file provided") ELSE Null]
  /\ UNCHANGED << records, result, prior, call, ret, analyzers, cacheVars, orchestrator >>

\* From the end of await file.text() to the await of setAnalysis.
Pipeline ==
  /\ request # Null
  /\ request.pc = "reading"
  /\ \E parsed \in ParseOutcomes, id \in Ids :
       /\ request' = pipeline(request, parsed, id)
       /\ result' = request'.analysisResult
       /\ records' = IF parsed.status = "ok" THEN parsed.records ELSE records
  /\ UNCHANGED << prior, call, ret, analyzers, cacheVars, orchestrator >>

\* setAnalysis settles and the handler answers with the analysisId.
StoreAndRespond ==
  /\ request # Null
  /\ request.pc = "caching"
  /\ \E outcome \in KVOutcomes :
       LET value == [analysis |-> request.analysisResult, timestamp |-> "t1"]
           after == setAnalysis(request.analysisId, value, outcome)
       IN /\ kv' = after.kv
          /\ analysisCache' = after.analysisCache
          /\ lastSet' = Put(lastSet, request.analysisId, [value |-> value, age |-> 0])
  /\ request' = [request EXCEPT !.pc = "responded", !.steps = @ \o << "respond" >>,
                                !.response = Respond(200, [analysisId |-> request.analysisId])]
  /\ UNCHANGED << records, result, prior, call, ret, analyzers, isKVConfigured, orchestrator >>

NextRoute == Post \/ Pipeline \/ StoreAndRespond

SpecRoute == InitRoute /\ [][NextRoute]_vars

\* The place of a step in parse -> validateSleepData -> analyze -> setAnalysis -> respond.
StepOrder ==
  [parse |-> 1, validateSleepData |-> 2, analyze |-> 3, setAnalysis |-> 4, respond |-> 5]

NothingCached ==
  /\ analysisCache = NoEntries
  /\ kv # Null => kv.store = NoEntries

\* The cache holds value under id, in the KV store or in memory.
Cached(id, analysisResult) ==
  \/ id \in DOMAIN analysisCache /\ analysisCache[id].analysis = analysisResult
  \/ kv # Null /\ id \in DOMAIN kv.store /\ kv.store[id].value.analysis = analysisResult

(* C24: in the TypeScript pipeline of POST /api/analyze the steps are
   strictly ordered parse -> validateSleepData -> analyze -> setAnalysis ->
   respond: whenever the parsed records fail validation (in particular
   whenever fewer than 14 records were parsed) the response is HTTP 422,
   the analyzer is never invoked and nothing is cached; an analysisId is
   returned only after setAnalysis for that id has resolved, so every id
   handed to a client has a cached analysis. *)
C24_RouteOrder ==
  request # Null =>
    /\ \A i \in 1..Len(request.steps) : \A j \in 1..Len(request.steps) :
         i < j => StepOrder[request.steps[i]] < StepOrder[request.steps[j]]
    /\ \A i \in 1..Len(request.steps) :
         request.steps[i] \in { "analyze", "setAnalysis" } =>
           /\ i > 1
           /\ request.steps[i - 1] =
                (IF request.steps[i] = "analyze" THEN "validateSleepData" ELSE "analyze")
    /\ (request.sleepRecords # Null /\ Len(request.sleepRecords) < 14) =>
         ~request.validation.valid
    /\ (request.validation # Null /\ ~request.validation.valid) =>
         /\ request.pc = "responded"
         /\ request.response.status = 422
         /\ request.response.body = request.validation.error_message
         /\ \A i \in 1..Len(request.steps) : request.steps[i] # "analyze"
         /\ result = Null
         /\ NothingCached
    /\ (request.pc = "responded" /\ request.response.status = 200) =>
         /\ request.steps =
              << "parse", "validateSleepData", "analyze", "setAnalysis", "respond" >>
         /\ request.analysisId \in DOMAIN lastSet
         /\ Cached(request.analysisId, request.analysisResult)
         /\ Ok(request.analysisResult)
    /\ request.pc # "responded" => request.response = Null

\* Thirteen records parsed: answered with 422, nothing analysed or cached.
C24_Witness ==
  /\ request # Null
  /\ request.pc = "responded"
  /\ request.sleepRecords # Null
  /\ Len(request.sleepRecords) = 13
  /\ request.response.status = 422
  /\ request.steps = << "parse", "validateSleepData", "respond" >>
  /\ result = Null
  /\ NothingCached

-----------------------------------------------------------------------------
(* The places that derive a drift tier from an SHDI score                    *)

\* getScoreCategory of the results page.
getScoreCategory(score) ==
  IF FLt(score, FromInt(20)) THEN "stable"
  ELSE IF FLt(score, FromInt(40)) THEN "moderate_drift"
  ELSE "significant_drift"

\* The Clinical Significance line of the clinical report.
clinicalSignificance(score) ==
  IF FLt(score, FromInt(30)) THEN "Minimal - routine follow-up"
  ELSE IF FLt(score, FromInt(60)) THEN "Moderate - lifestyle counseling recommended"
  ELSE "Significant - clinical evaluation warranted"

\* The Follow-Up Plan of the clinical report.
followUpPlan(score) ==
  IF FGt(score, FromInt(60)) THEN "Urgent"
  ELSE IF FGt(score, FromInt(30)) THEN "Routine"
  ELSE "As Needed"

\* The tier each wording stands for.
TierOf ==
  [x \in { "Minimal - routine follow-up", "As Needed" } |-> "stable"] @@
  [x \in { "Moderate - lifestyle counseling recommended", "Routine" } |-> "moderate_drift"] @@
  [x \in { "Significant - clinical evaluation warranted", "Urgent" } |-> "significant_drift"]

\* Scores from 0 to 100: the whole numbers and the tenths next to them.
TierScores ==
  { FromInt(i) : i \in 0..100 } \cup { Dec(10 * i + 9, -1) : i \in { 19, 29, 39, 59 } }
  \cup { Dec(10 * i + 1, -1) : i \in { 20, 30, 40, 60 } }

\* One analysis shown on the results page and written into the clinical report.
ShowScore ==
  /\ call = NoCall
  /\ \E score \in TierScores :
       /\ call' = [fn |-> "tiers", score |-> score]
       /\ ret' = [engine |-> determineSHDICategory(score),
                  page |-> getScoreCategory(score),
                  significance |-> clinicalSignificance(score),
                  followUp |-> followUpPlan(score)]
  /\ UNCHANGED << records, result, prior >>
  /\ UNCHANGED << analyzers, cacheVars, agentVars >>

NextTiers == ShowScore

SpecTiers == InitCall /\ [][NextTiers]_vars

(* C25: every place that derives a drift tier from an SHDI score agrees
   with the engine: for every score s in [0, 100] the results page's
   getScoreCategory(s) and the clinical report's clinical-significance and
   follow-up tiers select the same tier as determineSHDICategory(s) (stable
   for s < 30, moderate_drift for 30 <= s < 60, significant_drift for
   s >= 60), including at s = 30 and s = 60. *)
C25_TiersAgree ==
  call.fn = "tiers" =>
    /\ ret.engine = (IF FLt(call.score, FromInt(30)) THEN "stable"
                     ELSE IF FLt(call.score, FromInt(60)) THEN "moderate_drift"
                     ELSE "significant_drift")
    /\ ret.page = ret.engine
    /\ TierOf[ret.significance] = ret.engine
    /\ TierOf[ret.followUp] = ret.engine

-----------------------------------------------------------------------------
(* SOMNIOrchestrator.executeTools: the tool calls of one model response      *)

\* The five tools and what the handler of each can come to. queryPubMed,
\* invokeO1 and scrapeBrightData catch their own errors; queryPerplexity
\* throws its error again and assessEvidence has no try block.
HandlerOutcomes ==
  [query_pubmed |-> { "found", "empty" },
   invoke_o1_reasoning |-> { "ok" },
   scrape_guidelines |-> { "ok" },
   sonar_consensus |-> { "ok", "throws" },
   assess_evidence_quality |-> { "ok", "throws" }]

KnownTools == DOMAIN HandlerOutcomes

\* A content block of a response: a text, or a tool_use with the outcome its
\* handler is going to have (none for a name outside the five tools).
TextBlock(id) == [type |-> "text", id |-> id, name |-> "", outcome |-> "none"]
ToolUse(id, name, outcome) == [type |-> "tool_use", id |-> id, name |-> name, outcome |-> outcome]

ErrorContent(message) == [error |-> message]

\* The usage counters after one tool has run.
usageAfter(usage, tool) ==
  IF tool.name = "query_pubmed"
    THEN [usage EXCEPT !.pubmedQueries = @ + 1,
                       !.pubmedErrors = IF tool.outcome = "empty" THEN @ + 1 ELSE @]
  ELSE IF tool.name = "invoke_o1_reasoning" THEN [usage EXCEPT !.openaiO1Used = TRUE]
  ELSE IF tool.name = "sonar_consensus" THEN [usage EXCEPT !.perplexityCalls = @ + 1]
  ELSE usage

\* Variant of the callback: a throwing handler is not caught.
runToolNoCatch(tool) ==
  IF tool.name \in KnownTools /\ tool.outcome = "throws"
    THEN [status |-> "rejected", reason |-> "handler error"]
    ELSE [status |-> "fulfilled",
          value |-> [type |-> "tool_result", tool_use_id |-> tool.id,
                     content |-> IF tool.name \in KnownTools
                                   THEN [result |-> << tool.name, tool.outcome >>]
                                   ELSE ErrorContent(<< "Unknown tool", tool.name >>)]]

\* The async callback mapped over the tool calls: the promise it returns.
runTool(tool) ==
  LET tool_result(content) ==
        [type |-> "tool_result", tool_use_id |-> tool.id, content |-> content]
  IN [status |-> "fulfilled",
      value |->
        IF tool.name \notin KnownTools
          THEN tool_result(ErrorContent(<< "Unknown tool", tool.name >>))
        ELSE IF tool.outcome = "throws"
          THEN tool_result(ErrorContent("handler error"))
        ELSE tool_result([result |-> << tool.name, tool.outcome >>])]

RECURSIVE usageAfterAll(_, _, _)
usageAfterAll(usage, toolCalls, i) ==
  IF i > Len(toolCalls) THEN usage
  ELSE usageAfterAll(usageAfter(usage, toolCalls[i]), toolCalls, i + 1)

\* executeTools(content) on the orchestrator o: what the call comes to and
\* the orchestrator's fields afterwards. Promise.all keeps the order of the
\* calls and rejects as soon as one of the promises rejects.
executeTools(o, content) ==
  LET toolCalls == SelectSeq(content, LAMBDA c : c.type = "tool_use")
      promises == [i \in 1..Len(toolCalls) |-> runTool(toolCalls[i])]
      after == [pipelineSteps |-> o.pipelineSteps
                                    \o [i \in 1..Len(toolCalls) |-> toolCalls[i].name],
                usage |-> usageAfterAll(o.usage, toolCalls, 1)]
  IN [orchestrator |-> after,
      returned |->
        IF \E i \in 1..Len(promises) : promises[i].status = "rejected"
          THEN [status |-> "rejected"]
          ELSE [status |-> "resolved",
                results |-> [i \in 1..Len(promises) |-> promises[i].value]]]

\* The blocks a response can hold at place i.
BlocksAt(i) ==
  LET id == << "toolu", i >>
  IN { TextBlock(id), ToolUse(id, "made_up_tool", "none") }
     \cup UNION { { ToolUse(id, name, outcome) : outcome \in HandlerOutcomes[name] } :
                    name \in KnownTools }

\* The most content blocks in a response.
MaxBlocks == 2

Contents ==
  UNION { { c \in [1..n -> UNION { BlocksAt(i) : i \in 1..n }] :
              \A i \in 1..n : c[i] \in BlocksAt(i) } : n \in 0..MaxBlocks }

InitTools ==
  /\ records = << >>
  /\ result = None
  /\ prior = None
  /\ call = NoCall
  /\ ret = None
  /\ analyzers = [i \in Instances |-> NoFields]
  /\ kv = Null
  /\ analysisCache = NoEntries
  /\ isKVConfigured = FALSE
  /\ lastSet = NoEntries
  /\ orchestrator = [pipelineSteps |-> << >>,
                     usage |-> [pubmedQueries |-> 0, pubmedErrors |-> 0,
                                perplexityCalls |-> 0, openaiO1Used |-> FALSE]]
  /\ request = Null

\* await this.executeTools(response.content)
ExecuteTools ==
  /\ call = NoCall
  /\ \E content \in Contents :
       LET done == executeTools(orchestrator, content) IN
       /\ call' = [fn |-> "executeTools", content |-> content]
       /\ ret' = done.returned
       /\ orchestrator' = done.orchestrator
  /\ UNCHANGED << records, result, prior, analyzers, cacheVars, request >>

NextTools == ExecuteTools

SpecTools == InitTools /\ [][NextTools]_vars

\* The tool_use blocks of the response of the call.
CallToolUses == SelectSeq(call.content, LAMBDA c : c.type = "tool_use")

(* C26: executeTools returns exactly one tool_result per tool_use block of
   the model response, in the same order and carrying the same tool_use_id;
   a tool handler that throws, and a tool name outside the five known
   tools, are each converted into a tool_result whose content is an error
   object, so executeTools itself never rejects and one failing tool does
   not prevent the results of the other tools run in parallel. *)
C26_OneResultPerToolUse ==
  call.fn = "executeTools" =>
    /\ ret.status = "resolved"
    /\ Len(ret.results) = Len(CallToolUses)
    /\ \A i \in 1..Len(CallToolUses) :
         LET tool == CallToolUses[i]
             failing == tool.name \notin KnownTools \/ tool.outcome = "throws"
         IN /\ ret.results[i].type = "tool_result"
            /\ ret.results[i].tool_use_id = tool.id
            /\ failing <=> "error" \in DOMAIN ret.results[i].content
            /\ ~failing => ret.results[i].content = [result |-> << tool.name, tool.outcome >>]
    /\ orchestrator.pipelineSteps = [i \in 1..Len(CallToolUses) |-> CallToolUses[i].name]

\* A throwing handler and a tool that succeeds after it: two results, the
\* first one an error.
C26_Witness ==
  /\ call.fn = "executeTools"
  /\ Len(CallToolUses) = 2
  /\ CallToolUses[1].outcome = "throws"
  /\ ret.status = "resolved"
  /\ "error" \in DOMAIN ret.results[1].content
  /\ "result" \in DOMAIN ret.results[2].content

=============================================================================
